---- MODULE Spec2Model ----
(***************************************************************************)
(* State-machine model of the himetrica-js browser SDK: the client facade   *)
(* (client.ts), the identity store (visitor.ts), the error guard            *)
(* (errors.ts) and the transport boundary (transport.ts).                   *)
(*                                                                          *)
(* Time is Date.now() in milliseconds.  Identifiers produced by             *)
(* generateId() are modelled as fresh positive integers (0 stands for       *)
(* null / the empty string, both falsy in the source).  Numbers written to  *)
(* storage with toString() and read back with parseInt() are kept as        *)
(* numbers.  A "sent" log records every payload handed to the transport.    *)
(***************************************************************************)
EXTENDS Integers, Sequences, FiniteSets, TLC

\* ---------------------------------------------------------------- bounds
Epoch == 1000          \* Date.now() when the page starts (positive)
MaxIds == 5            \* generateId() calls explored (page-view runs)
MaxSent == 3           \* payloads handed to the transport (page-view runs)
MaxTimers == 2         \* setTimeout handles created (page-view runs)
MultiMaxIds == 7       \* generateId() calls explored (several instances)
MultiMaxSent == 4      \* payloads handed to the transport (several instances)
MultiMaxTimers == 4    \* setTimeout handles created (several instances)
MaxErrSent == 12       \* payloads handed to the transport (rate-limit runs)
NumHashes == 11        \* distinct error fingerprints explored
DedupMaxSent == 4      \* payloads handed to the transport (dedup runs)
TrackMaxSent == 1      \* payloads handed to the transport (event-name runs)
SessionMaxIds == 5     \* generateId() calls explored (identity-store runs)
SessionMaxSent == 2    \* payloads handed to the transport (identity-store runs)
SessionMaxTimers == 1  \* setTimeout handles created (identity-store runs)
MaxFetches == 2         \* identify() calls explored
MergeMaxSent == 4       \* payloads handed to the transport (identity-merge runs)
AttrMaxIds == 5         \* generateId() calls explored (attribution runs)
AttrMaxSent == 3        \* payloads handed to the transport (attribution runs)
AttrMaxTimers == 2      \* setTimeout calls explored (attribution runs)
FaultMaxSent == 2       \* payloads handed to the transport (storage-fault runs)
VitalsMaxSent == 3      \* payloads handed to the transport (vitals runs)
MaxCaptures == 1       \* captures within one rate-limit window (other runs)

\* ------------------------------------------------------ program constants
FIRST_PAGE_VIEW_DELAY == 300
PAGE_VIEW_MIN_DURATION == 1000
MIN_DURATION == 1
MAX_DURATION == 3600
MAX_EVENT_NAME_LENGTH == 255
RATE_LIMIT_MAX == 10
RATE_LIMIT_WINDOW == 60 * 1000
DEDUP_EXPIRY == 5 * 60 * 1000
VISITOR_COOKIE_MAX_AGE == 365 * 24 * 60 * 60
DEFAULT_SESSION_TIMEOUT == 30 * 60 * 1000

\* ------------------------------------------------------------ value sets
Clients == {1, 2, 3}
Pair == {1, 2}                             \* the two instances of most runs
HostHandler == 0 - 1                       \* a handler the host page installed
Undefined == "<undefined>"                 \* an omitted path argument
NullString == "<null>"                     \* null where a string is expected
NoPath == <<NullString, "">>               \* lastTrackedPath = null
Pathnames == {"/", "/a"}
Searches == {"", "?utm_source=x"}
Frames == {"top", "nested", "sandboxed"}   \* window.top: same, other, throws
NoUtm == NullString
CookieNames == {"hm_vid", "hm_sid", "hm_sts", "hm_ref", "hm_utm"}
NumericCookies == {"hm_vid", "hm_sid", "hm_sts"}

NoData ==
  [visitorId |-> 0, sessionId |-> 0, pageViewId |-> 0, path |-> NullString,
   referrer |-> NullString, queryString |-> "", utm |-> NoUtm]

NoConfig ==
  [autoTrackPageViews |-> FALSE, autoTrackErrors |-> FALSE,
   interceptConsole |-> FALSE, trackVitals |-> FALSE,
   respectDoNotTrack |-> FALSE, sessionTimeout |-> 0, cookieDomain |-> FALSE]

\* A value per client, the same for all.
Fresh(c) == [x \in Clients |-> c]

VARIABLES
  now,                         \* Date.now()
  env,                         \* the page: frame, loopback, doNotTrack, referrer, ...
  readyState,                  \* document.readyState
  location,                    \* window.location: [pathname, search]
  constructed,                 \* client -> the constructor has run
  config,                      \* client -> ResolvedConfig
  disabled,                    \* client -> this.disabled
  currentPageViewId,           \* client -> this.currentPageViewId (0 = null)
  pageViewStartTime,           \* client -> this.pageViewStartTime
  lastTrackedPath,             \* client -> this.lastTrackedPath
  autoPageViewsSetup,          \* client -> this.autoPageViewsSetup
  pendingPageViewTimer,        \* client -> timer handle (0 = null)
  pendingPageViewData,         \* client -> payload (NoData = null)
  isFirstPageView,             \* client -> this.isFirstPageView
  cleanupErrors,               \* client -> teardown closure present
  himetricaInitialized,        \* window.__himetricaInitialized
  himetricaPushStatePatched,   \* window.__himetricaPushStatePatched
  himetricaPageViewListeners,  \* window.__himetricaPageViewListeners
  historyWrappers,             \* how many wrappers history.pushState carries
  loadListeners,               \* "load" listeners waiting for the page load
  windowOnerror,               \* window.onerror: 0 null, -1 the host's, c the SDK's
  rejectionListeners,          \* clients with an unhandledrejection listener
  timers,                      \* pending page-view setTimeout closures
  timerSeq,                    \* last setTimeout handle
  idSeq,                       \* last generateId() value
  errorTimestamps,             \* errors.ts errorTimestamps
  sentErrorHashes,             \* errors.ts sentErrorHashes
  dedupTimers,                 \* pending sentErrorHashes.delete closures
  localStorage,                \* hm_visitor_id
  sessionStorage,              \* hm_session_id, hm_session_timestamp, hm_original_referrer
  cookies,                     \* document.cookie
  sent,                        \* payloads handed to the transport, in order
  cancelled,                   \* history: page-view ids whose pending send was cancelled
  lastSession,                 \* history: store -> id and time of the last getSessionId read
  console,                     \* console.error / console.warn: 0 native, c wrapper of client c
  originalConsole,             \* per client: originalError / originalWarn of its hooks
  vitalsCallbacks,             \* web-vitals subscriptions, one per setupVitals call
  hiddenPending,               \* history: page-view ids pending when the page was hidden or unloaded
  destroyed,                   \* history: the clients destroy() was called on
  identifyRequests,            \* identify fetches in flight, each with the id it sent
  fetchSeq,                    \* last fetch() promise
  canonicalId,                 \* history: the canonical visitor id last written by an identify response
  exception,                   \* the last operation threw to its caller
  vitalsFired,                 \* web-vitals: <<subscription, metric>> pairs already delivered
  visitorInfoCache,            \* per client: the cached visitor info, 0 for null
  visitorInfoPromise,          \* per client: the pending visitor-info promise, 0 for null
  infoRequests,                \* visitor-info fetches in flight
  op                           \* history: the operation of the last step

vars ==
  <<now, env, readyState, location, constructed, config, disabled,
    currentPageViewId, pageViewStartTime, lastTrackedPath, autoPageViewsSetup,
    pendingPageViewTimer, pendingPageViewData, isFirstPageView, cleanupErrors,
    himetricaInitialized, himetricaPushStatePatched, himetricaPageViewListeners,
    historyWrappers, loadListeners, windowOnerror, rejectionListeners, timers,
    timerSeq, idSeq, errorTimestamps, sentErrorHashes, dedupTimers,
    localStorage, sessionStorage, cookies, sent, cancelled, lastSession,
    console, originalConsole, vitalsCallbacks, hiddenPending, destroyed,
    identifyRequests, fetchSeq, canonicalId, exception, vitalsFired,
    visitorInfoCache, visitorInfoPromise, infoRequests, op>>

\* The whole program state as one record, so that a handler is a function
\* from state to state and handlers compose the way the calls do.
Cur ==
  [now |-> now, env |-> env, readyState |-> readyState, location |-> location,
   constructed |-> constructed, config |-> config, disabled |-> disabled,
   currentPageViewId |-> currentPageViewId,
   pageViewStartTime |-> pageViewStartTime,
   lastTrackedPath |-> lastTrackedPath,
   autoPageViewsSetup |-> autoPageViewsSetup,
   pendingPageViewTimer |-> pendingPageViewTimer,
   pendingPageViewData |-> pendingPageViewData,
   isFirstPageView |-> isFirstPageView, cleanupErrors |-> cleanupErrors,
   himetricaInitialized |-> himetricaInitialized,
   himetricaPushStatePatched |-> himetricaPushStatePatched,
   himetricaPageViewListeners |-> himetricaPageViewListeners,
   historyWrappers |-> historyWrappers, loadListeners |-> loadListeners,
   windowOnerror |-> windowOnerror, rejectionListeners |-> rejectionListeners,
   timers |-> timers, timerSeq |-> timerSeq, idSeq |-> idSeq,
   errorTimestamps |-> errorTimestamps, sentErrorHashes |-> sentErrorHashes,
   dedupTimers |-> dedupTimers, localStorage |-> localStorage,
   sessionStorage |-> sessionStorage, cookies |-> cookies, sent |-> sent,
   cancelled |-> cancelled, lastSession |-> lastSession, console |-> console,
   originalConsole |-> originalConsole, vitalsCallbacks |-> vitalsCallbacks,
   hiddenPending |-> hiddenPending, destroyed |-> destroyed,
   identifyRequests |-> identifyRequests, fetchSeq |-> fetchSeq,
   canonicalId |-> canonicalId, exception |-> FALSE,
   vitalsFired |-> vitalsFired, visitorInfoCache |-> visitorInfoCache,
   visitorInfoPromise |-> visitorInfoPromise, infoRequests |-> infoRequests]

\* The step that takes the program to state S, having performed operation o.
Commit(S, o) ==
  /\ now' = S.now
  /\ env' = S.env
  /\ readyState' = S.readyState
  /\ location' = S.location
  /\ constructed' = S.constructed
  /\ config' = S.config
  /\ disabled' = S.disabled
  /\ currentPageViewId' = S.currentPageViewId
  /\ pageViewStartTime' = S.pageViewStartTime
  /\ lastTrackedPath' = S.lastTrackedPath
  /\ autoPageViewsSetup' = S.autoPageViewsSetup
  /\ pendingPageViewTimer' = S.pendingPageViewTimer
  /\ pendingPageViewData' = S.pendingPageViewData
  /\ isFirstPageView' = S.isFirstPageView
  /\ cleanupErrors' = S.cleanupErrors
  /\ himetricaInitialized' = S.himetricaInitialized
  /\ himetricaPushStatePatched' = S.himetricaPushStatePatched
  /\ himetricaPageViewListeners' = S.himetricaPageViewListeners
  /\ historyWrappers' = S.historyWrappers
  /\ loadListeners' = S.loadListeners
  /\ windowOnerror' = S.windowOnerror
  /\ rejectionListeners' = S.rejectionListeners
  /\ timers' = S.timers
  /\ timerSeq' = S.timerSeq
  /\ idSeq' = S.idSeq
  /\ errorTimestamps' = S.errorTimestamps
  /\ sentErrorHashes' = S.sentErrorHashes
  /\ dedupTimers' = S.dedupTimers
  /\ localStorage' = S.localStorage
  /\ sessionStorage' = S.sessionStorage
  /\ cookies' = S.cookies
  /\ sent' = S.sent
  /\ cancelled' = S.cancelled
  /\ lastSession' = S.lastSession
  /\ console' = S.console
  /\ originalConsole' = S.originalConsole
  /\ vitalsCallbacks' = S.vitalsCallbacks
  /\ hiddenPending' = S.hiddenPending
  /\ destroyed' = S.destroyed
  /\ identifyRequests' = S.identifyRequests
  /\ fetchSeq' = S.fetchSeq
  /\ canonicalId' = S.canonicalId
  /\ exception' = S.exception
  /\ vitalsFired' = S.vitalsFired
  /\ visitorInfoCache' = S.visitorInfoCache
  /\ visitorInfoPromise' = S.visitorInfoPromise
  /\ infoRequests' = S.infoRequests
  /\ op' = o

\* ------------------------------------------------------------- transport
\* `at` is the payload's own timestamp field (error payloads carry one).
Payload(route, S) ==
  [route |-> route, at |-> IF route = "errors" THEN S.now ELSE 0, client |-> 0, visitorId |-> 0,
   sessionId |-> 0, pageViewId |-> 0, path |-> NullString, duration |-> 0,
   hash |-> 0, name |-> <<>>, referrer |-> NullString, queryString |-> "",
   utm |-> NoUtm, metric |-> ""]

sendPost(S, p) == [S EXCEPT !.sent = Append(@, p)]

sendBeacon(S, p) == [S EXCEPT !.sent = Append(@, p)]

\* ------------------------------------------------------------ visitor.ts
generateId(S) == S.idSeq + 1

\* getVisitorId that returns a new id without storing it.
getVisitorIdNotStored(S, cookieDomain) ==
  IF cookieDomain
  THEN LET fromCookie ==
             IF S.cookies["hm_vid"].present THEN S.cookies["hm_vid"].value ELSE 0
           fresh == generateId(S)
       IN IF fromCookie # 0 THEN [s |-> S, v |-> fromCookie]
          ELSE [s |-> [S EXCEPT !.idSeq = fresh], v |-> fresh]
  ELSE LET stored == S.localStorage["hm_visitor_id"]
           fresh == generateId(S)
       IN IF stored # 0 THEN [s |-> S, v |-> stored]
          ELSE [s |-> [S EXCEPT !.idSeq = fresh], v |-> fresh]

\* A cookie keeps the instant it was written at and its max-age in seconds;
\* it is readable until max-age seconds later, that instant included.
cookieExpired(ck, t) ==
  LET age == t - ck.setAt
  IN \/ age \div 1000 > ck.maxAge
     \/ (age \div 1000 = ck.maxAge /\ age % 1000 > 0)

NoCookie(name) ==
  [present |-> FALSE, value |-> IF name \in NumericCookies THEN 0 ELSE "",
   session |-> FALSE, setAt |-> 0, maxAge |-> 0]

getCookie(S, name) ==
  LET ck == S.cookies[name]
  IN IF ck.present /\ (ck.session \/ ~cookieExpired(ck, S.now))
     THEN ck.value
     ELSE IF name \in NumericCookies THEN 0 ELSE NullString

\* document.cookie = "name=value; max-age=maxAge": max-age <= 0 removes it.
setCookie(S, name, value, maxAge) ==
  [S EXCEPT !.cookies[name] =
     IF maxAge <= 0
     THEN NoCookie(name)
     ELSE [present |-> TRUE, value |-> value, session |-> FALSE,
           setAt |-> S.now, maxAge |-> maxAge]]

\* A cookie written without max-age lives as long as the browser session.
setSessionCookie(S, name, value) ==
  [S EXCEPT !.cookies[name] =
     [present |-> TRUE, value |-> value, session |-> TRUE,
      setAt |-> S.now, maxAge |-> 0]]

\* Math.round(x / d) for x >= 0
Round(x, d) == (2 * x + d) \div (2 * d)

\* A localStorage / sessionStorage access that raises (storage denied).
Throw(S) == [s |-> [S EXCEPT !.exception = TRUE], v |-> 0]

getVisitorId(S, cookieDomain) ==
  IF S.env.storageThrows /\ (~cookieDomain \/ getCookie(S, "hm_vid") = 0)
  THEN Throw(S)
  ELSE IF cookieDomain
  THEN LET fromCookie == getCookie(S, "hm_vid")
           migrated == S.localStorage["hm_visitor_id"]
           fresh == generateId(S)
       IN IF fromCookie # 0
          THEN [s |-> S, v |-> fromCookie]
          ELSE IF migrated # 0
          THEN [s |-> setCookie(S, "hm_vid", migrated, VISITOR_COOKIE_MAX_AGE),
                v |-> migrated]
          ELSE [s |-> setCookie([S EXCEPT !.idSeq = fresh], "hm_vid", fresh,
                                VISITOR_COOKIE_MAX_AGE),
                v |-> fresh]
  ELSE LET stored == S.localStorage["hm_visitor_id"]
           fresh == generateId(S)
       IN IF stored # 0
          THEN [s |-> S, v |-> stored]
          ELSE [s |-> [S EXCEPT !.idSeq = fresh,
                                !.localStorage["hm_visitor_id"] = fresh],
                v |-> fresh]

clearAttributionCookies(S) ==
  setCookie(setCookie(S, "hm_ref", "", 0), "hm_utm", "", 0)

getSessionId(S, timeout, cookieDomain) ==
  IF S.env.storageThrows /\ ~cookieDomain THEN Throw(S)
  ELSE IF cookieDomain
  THEN LET sessionId == getCookie(S, "hm_sid")
           lastTimestamp == getCookie(S, "hm_sts")
           maxAge == Round(timeout, 1000)
           expired == sessionId = 0 \/ lastTimestamp = 0
                      \/ S.now - lastTimestamp > timeout
           fresh == generateId(S)
           id == IF expired THEN fresh ELSE sessionId
           S1 == IF expired
                 THEN clearAttributionCookies([S EXCEPT !.idSeq = fresh])
                 ELSE S
       IN [s |-> [setCookie(setCookie(S1, "hm_sid", id, maxAge),
                            "hm_sts", S.now, maxAge)
                  EXCEPT !.lastSession[TRUE] = [id |-> id, at |-> S.now]],
           v |-> id]
  ELSE LET sessionId == S.sessionStorage["hm_session_id"]
           lastTimestamp == S.sessionStorage["hm_session_timestamp"]
           expired == sessionId = 0 \/ lastTimestamp = 0
                      \/ S.now - lastTimestamp > timeout
           fresh == generateId(S)
           id == IF expired THEN fresh ELSE sessionId
           S1 == IF expired
                 THEN [S EXCEPT !.idSeq = fresh,
                                !.sessionStorage["hm_session_id"] = fresh]
                 ELSE S
       IN [s |-> [S1 EXCEPT !.sessionStorage["hm_session_timestamp"] = S.now,
                                !.lastSession[FALSE] = [id |-> id, at |-> S.now]],
           v |-> id]

generatePageViewId(S) == generateId(S)

getUtmParamsFromUrl(S) ==
  IF S.location.search = "" THEN NoUtm ELSE S.location.search

getStoredUtmParams(S, cookieDomain) ==
  IF ~cookieDomain THEN NoUtm
  ELSE LET raw == getCookie(S, "hm_utm")
       IN IF raw = NullString \/ raw = "" THEN NoUtm ELSE raw

setStoredUtmParams(S, utm) == setSessionCookie(S, "hm_utm", utm)

getSessionUtmParams(S, cookieDomain) ==
  LET fromUrl == getUtmParamsFromUrl(S)
  IN IF fromUrl # NoUtm
     THEN [s |-> IF cookieDomain THEN setStoredUtmParams(S, fromUrl) ELSE S,
           v |-> fromUrl]
     ELSE [s |-> S, v |-> getStoredUtmParams(S, cookieDomain)]

\* ------------------------------------------------------------ client.ts
\* sendDuration without the upper limit on the reported duration.
sendDurationNoUpperLimit(S, c) ==
  IF S.currentPageViewId[c] = 0 \/ S.pageViewStartTime[c] = 0 THEN S
  ELSE LET duration == Round(S.now - S.pageViewStartTime[c], 1000)
       IN IF duration < MIN_DURATION THEN S
          ELSE [sendBeacon(S, [Payload("beacon", S) EXCEPT
                                 !.client = c,
                                 !.pageViewId = S.currentPageViewId[c],
                                 !.duration = duration])
                EXCEPT !.currentPageViewId[c] = 0,
                       !.pageViewStartTime[c] = 0]

\* sendDuration that keeps the page view current after reporting it.
sendDurationKeepsCurrent(S, c) ==
  IF S.currentPageViewId[c] = 0 \/ S.pageViewStartTime[c] = 0 THEN S
  ELSE LET duration == Round(S.now - S.pageViewStartTime[c], 1000)
       IN IF duration < MIN_DURATION \/ duration > MAX_DURATION THEN S
          ELSE sendBeacon(S, [Payload("beacon", S) EXCEPT
                                !.client = c,
                                !.pageViewId = S.currentPageViewId[c],
                                !.duration = duration])

sendDuration(S, c) ==
  IF S.currentPageViewId[c] = 0 \/ S.pageViewStartTime[c] = 0 THEN S
  ELSE LET duration == Round(S.now - S.pageViewStartTime[c], 1000)
       IN IF duration < MIN_DURATION \/ duration > MAX_DURATION THEN S
          ELSE [sendBeacon(S, [Payload("beacon", S) EXCEPT
                                 !.client = c,
                                 !.pageViewId = S.currentPageViewId[c],
                                 !.duration = duration])
                EXCEPT !.currentPageViewId[c] = 0,
                       !.pageViewStartTime[c] = 0]

\* getOriginalReferrer that reads document.referrer on every call.
getOriginalReferrerNotStored(S, c) ==
  IF S.config[c].cookieDomain
  THEN [s |-> S, v |-> IF S.env.referrer = "external" THEN S.env.referrer ELSE ""]
  ELSE [s |-> S, v |-> S.env.referrer]

\* document.referrer is "", "sibling" (another subdomain of the cookie
\* domain's root) or "external"; in cookie mode a sibling counts as internal.
getOriginalReferrer(S, c) ==
  IF S.env.storageThrows /\ ~S.config[c].cookieDomain THEN Throw(S)
  ELSE IF S.config[c].cookieDomain
  THEN LET storedReferrer == getCookie(S, "hm_ref")
           externalReferrer ==
             IF S.env.referrer = "external" THEN S.env.referrer ELSE ""
       IN IF storedReferrer # NullString
          THEN [s |-> S, v |-> storedReferrer]
          ELSE [s |-> setSessionCookie(S, "hm_ref", externalReferrer),
                v |-> externalReferrer]
  ELSE LET storedReferrer == S.sessionStorage["hm_original_referrer"]
           externalReferrer == S.env.referrer
       IN IF storedReferrer # NullString
          THEN [s |-> S, v |-> storedReferrer]
          ELSE [s |-> [S EXCEPT !.sessionStorage["hm_original_referrer"] =
                          externalReferrer],
                v |-> externalReferrer]

clearTimeout(S, handle) ==
  [S EXCEPT !.timers = {t \in @ : t.id # handle}]

\* cancelPending that forgets the payload but leaves the timer running.
cancelPendingKeepsTimer(S, c) ==
  IF S.pendingPageViewTimer[c] # 0
  THEN [S EXCEPT
          !.pendingPageViewTimer[c] = 0,
          !.pendingPageViewData[c] = NoData,
          !.cancelled = @ \cup {S.pendingPageViewData[c].pageViewId}]
  ELSE S

\* Lines 95-99: cancel the pending page view, timer and payload.
cancelPending(S, c) ==
  IF S.pendingPageViewTimer[c] # 0
  THEN [clearTimeout(S, S.pendingPageViewTimer[c]) EXCEPT
          !.pendingPageViewTimer[c] = 0,
          !.pendingPageViewData[c] = NoData,
          !.cancelled = @ \cup {S.pendingPageViewData[c].pageViewId}]
  ELSE S

\* pageViewDelay that always takes the short delay.
pageViewDelayAlwaysShort(S, c) == FIRST_PAGE_VIEW_DELAY

\* Lines 135-137
pageViewDelay(S, c) ==
  IF S.isFirstPageView[c] THEN FIRST_PAGE_VIEW_DELAY ELSE PAGE_VIEW_MIN_DURATION

\* schedulePageView that keeps the payload but never arms the timer.
schedulePageViewNoTimer(S, c, data, delay) ==
  LET handle == S.timerSeq + 1
  IN [S EXCEPT !.isFirstPageView[c] = FALSE,
               !.pendingPageViewData[c] = data,
               !.timerSeq = handle,
               !.pendingPageViewTimer[c] = handle]

\* Lines 141-149: setTimeout of the closure that sends `data`.
schedulePageView(S, c, data, delay) ==
  LET handle == S.timerSeq + 1
  IN [S EXCEPT !.isFirstPageView[c] = FALSE,
               !.pendingPageViewData[c] = data,
               !.timerSeq = handle,
               !.pendingPageViewTimer[c] = handle,
               !.timers = @ \cup {[id |-> handle, owner |-> c,
                                   due |-> S.now + delay, data |-> data]}]

\* isDuplicatePath that never recognises the last tracked path.
isDuplicatePathNever(S, c, currentPath) == FALSE

\* Line 91
isDuplicatePath(S, c, currentPath) == currentPath = S.lastTrackedPath[c]

\* beginPageView that assigns the new id and start time before finalizing.
beginPageViewAssignsFirst(S, c) ==
  LET pvid == generatePageViewId(S)
  IN sendDuration([S EXCEPT !.idSeq = pvid,
                            !.currentPageViewId[c] = pvid,
                            !.pageViewStartTime[c] = S.now], c)

\* Lines 102-105: finalize the previous page view, then start the new one.
beginPageView(S, c) ==
  LET S3 == sendDuration(S, c)
      pvid == generatePageViewId(S3)
  IN [S3 EXCEPT !.idSeq = pvid,
                !.currentPageViewId[c] = pvid,
                !.pageViewStartTime[c] = S3.now]

trackPageView(S, c, path) ==
  IF S.disabled[c] THEN S
  ELSE
    LET currentPath ==
          IF path = Undefined
          THEN <<S.location.pathname, S.location.search>>
          ELSE <<path, "">>
    IN IF isDuplicatePath(S, c, currentPath) THEN S
       ELSE
         LET S1 == [S EXCEPT !.lastTrackedPath[c] = currentPath]
             S2 == cancelPending(S1, c)
             S4 == beginPageView(S2, c)
             pvid == S4.currentPageViewId[c]
             utm == getSessionUtmParams(S4, S4.config[c].cookieDomain)
             vid == getVisitorId(utm.s, S4.config[c].cookieDomain)
             sid == getSessionId(vid.s, S4.config[c].sessionTimeout,
                                 S4.config[c].cookieDomain)
             ref == getOriginalReferrer(sid.s, c)
             data == [visitorId |-> vid.v, sessionId |-> sid.v,
                      pageViewId |-> pvid,
                      path |-> IF path = Undefined
                               THEN S.location.pathname ELSE path,
                      referrer |-> ref.v,
                      queryString |-> S.location.search,
                      utm |-> utm.v]
         IN IF vid.s.exception THEN vid.s
            ELSE IF sid.s.exception THEN sid.s
            ELSE IF ref.s.exception THEN ref.s
            ELSE schedulePageView(ref.s, c, data, pageViewDelay(ref.s, c))

PageViewPayload(S, c, data) ==
  [Payload("event", S) EXCEPT
     !.client = c, !.visitorId = data.visitorId,
     !.sessionId = data.sessionId, !.pageViewId = data.pageViewId,
     !.path = data.path, !.referrer = data.referrer,
     !.queryString = data.queryString, !.utm = data.utm]

\* The timer closure without the reset of the pending timer and payload.
pageViewTimerFiredKeepsPending(S, t) ==
  LET S1 == [S EXCEPT !.timers = @ \ {t}]
  IN sendPost(S1, PageViewPayload(S1, t.owner, t.data))

\* The closure of lines 141-149, run when timer t fires.
pageViewTimerFired(S, t) ==
  LET S1 == [S EXCEPT !.timers = @ \ {t},
                      !.pendingPageViewTimer[t.owner] = 0,
                      !.pendingPageViewData[t.owner] = NoData]
  IN sendPost(S1, PageViewPayload(S1, t.owner, t.data))

\* An event name is the sequence of its UTF-16 code units (charCodeAt).
isAsciiLetter(ch) == (ch >= 65 /\ ch <= 90) \/ (ch >= 97 /\ ch <= 122)
isNameChar(ch) ==
  isAsciiLetter(ch) \/ (ch >= 48 /\ ch <= 57) \/ ch = 95 \/ ch = 45

\* [a-zA-Z0-9_-]*$ from position i on
matchRest(name, i) == \A k \in i..Len(name) : isNameChar(name[k])

\* The test without the leading-letter requirement.
regexTestAnyFirst(name) == Len(name) >= 1 /\ matchRest(name, 1)

\* /^[a-zA-Z][a-zA-Z0-9_-]*$/.test(name)
regexTest(name) ==
  Len(name) >= 1 /\ isAsciiLetter(name[1]) /\ matchRest(name, 2)

\* NotAString stands for an argument that is not a string (null, a number).
NotAString == <<-1>>

\* Lines 155-157
isValidEventName(eventName) ==
  /\ eventName # <<>>
  /\ eventName # NotAString
  /\ ~(Len(eventName) > MAX_EVENT_NAME_LENGTH)
  /\ regexTest(eventName)

track(S, c, eventName) ==
  IF S.disabled[c] THEN S
  ELSE IF ~isValidEventName(eventName) THEN S
  ELSE LET vid == getVisitorId(S, S.config[c].cookieDomain)
           sid == getSessionId(vid.s, S.config[c].sessionTimeout,
                               S.config[c].cookieDomain)
       IN IF vid.s.exception THEN vid.s
          ELSE IF sid.s.exception THEN sid.s
          ELSE sendPost(sid.s, [Payload("custom-event", S) EXCEPT
                                  !.client = c, !.visitorId = vid.v,
                                  !.sessionId = sid.v, !.name = eventName,
                                  !.path = S.location.pathname])

\* flushPendingPageView that sends the payload but leaves the timer running.
flushPendingKeepsTimer(S, c) ==
  LET S1 == [S EXCEPT !.pendingPageViewTimer[c] = 0]
  IN IF S1.pendingPageViewData[c] # NoData
     THEN [sendPost(S1, PageViewPayload(S1, c, S1.pendingPageViewData[c]))
           EXCEPT !.pendingPageViewData[c] = NoData]
     ELSE S1

\* Lines 260-270
flushPendingPageView(S, c) ==
  LET S1 == IF S.pendingPageViewTimer[c] # 0
            THEN [clearTimeout(S, S.pendingPageViewTimer[c]) EXCEPT
                    !.pendingPageViewTimer[c] = 0]
            ELSE S
  IN IF S1.pendingPageViewData[c] # NoData
     THEN [sendPost(S1, PageViewPayload(S1, c, S1.pendingPageViewData[c]))
           EXCEPT !.pendingPageViewData[c] = NoData]
     ELSE S1

flush(S, c) == sendDuration(flushPendingPageView(S, c), c)

\* ------------------------------------------------------------- errors.ts
RECURSIVE evictOld(_, _)
evictOld(timestamps, t) ==
  IF Len(timestamps) > 0 /\ Head(timestamps) < t - RATE_LIMIT_WINDOW
  THEN evictOld(Tail(timestamps), t)
  ELSE timestamps

\* isRateLimited with the limit test off by one (> for >=).
isRateLimitedOffByOne(S) ==
  LET kept == evictOld(S.errorTimestamps, S.now)
  IN IF Len(kept) > RATE_LIMIT_MAX
     THEN [s |-> [S EXCEPT !.errorTimestamps = kept], v |-> TRUE]
     ELSE [s |-> [S EXCEPT !.errorTimestamps = Append(kept, S.now)],
           v |-> FALSE]

isRateLimited(S) ==
  LET kept == evictOld(S.errorTimestamps, S.now)
  IN IF Len(kept) >= RATE_LIMIT_MAX
     THEN [s |-> [S EXCEPT !.errorTimestamps = kept], v |-> TRUE]
     ELSE [s |-> [S EXCEPT !.errorTimestamps = Append(kept, S.now)],
           v |-> FALSE]

\* isDuplicate that never remembers what it has seen.
isDuplicateNeverRecorded(S, hash) ==
  IF hash \in S.sentErrorHashes
  THEN [s |-> S, v |-> TRUE]
  ELSE [s |-> S, v |-> FALSE]

isDuplicate(S, hash) ==
  IF hash \in S.sentErrorHashes
  THEN [s |-> S, v |-> TRUE]
  ELSE [s |-> [S EXCEPT !.sentErrorHashes = @ \cup {hash},
                        !.dedupTimers = @ \cup
                          {[hash |-> hash, due |-> S.now + DEDUP_EXPIRY]}],
        v |-> FALSE]

\* The closure of line 63, run when dedup timer t fires.
dedupTimerFired(S, t) ==
  [S EXCEPT !.dedupTimers = @ \ {t},
            !.sentErrorHashes = @ \ {t.hash}]

\* captureErrorEvent that gives a duplicate its rate-limit slot back.
captureErrorEventFreeDuplicates(S, sessionTimeout, hash) ==
  LET rl == isRateLimited(S)
      dup == isDuplicate(rl.s, hash)
      vid == getVisitorId(dup.s, FALSE)
      sid == getSessionId(vid.s, sessionTimeout, FALSE)
  IN IF rl.v THEN rl.s
     ELSE IF dup.v
     THEN [dup.s EXCEPT !.errorTimestamps = evictOld(S.errorTimestamps, S.now)]
     ELSE IF vid.s.exception THEN vid.s
     ELSE IF sid.s.exception THEN sid.s
     ELSE sendBeacon(sid.s, [Payload("errors", S) EXCEPT
                               !.visitorId = vid.v, !.sessionId = sid.v,
                               !.hash = hash,
                               !.path = S.location.pathname])

\* captureErrorEvent that consults the dedup guard before the rate limiter.
captureErrorEventDedupFirst(S, sessionTimeout, hash) ==
  LET dup == isDuplicate(S, hash)
      rl == isRateLimited(dup.s)
      vid == getVisitorId(rl.s, FALSE)
      sid == getSessionId(vid.s, sessionTimeout, FALSE)
  IN IF dup.v THEN dup.s
     ELSE IF rl.v THEN rl.s
     ELSE IF vid.s.exception THEN vid.s
     ELSE IF sid.s.exception THEN sid.s
     ELSE sendBeacon(sid.s, [Payload("errors", S) EXCEPT
                               !.visitorId = vid.v, !.sessionId = sid.v,
                               !.hash = hash,
                               !.path = S.location.pathname])

\* `hash` is the fingerprint hashError gives the captured error; the payload
\* takes its ids from same-origin storage whatever the client's storage mode.
captureErrorEvent(S, sessionTimeout, hash) ==
  LET rl == isRateLimited(S)
      dup == isDuplicate(rl.s, hash)
      vid == getVisitorId(dup.s, FALSE)
      sid == getSessionId(vid.s, sessionTimeout, FALSE)
  IN IF rl.v THEN rl.s
     ELSE IF dup.v THEN dup.s
     ELSE IF vid.s.exception THEN vid.s
     ELSE IF sid.s.exception THEN sid.s
     ELSE sendBeacon(sid.s, [Payload("errors", S) EXCEPT
                               !.visitorId = vid.v, !.sessionId = sid.v,
                               !.hash = hash,
                               !.path = S.location.pathname])

captureMessageEvent(S, sessionTimeout, hash) ==
  captureErrorEvent(S, sessionTimeout, hash)

\* Lines 149-174; console.error and console.warn are wrapped only with
\* interceptConsole, and the closure keeps what they were.
setupErrorHandlers(S, c) ==
  LET S1 == [S EXCEPT !.windowOnerror = c,
                      !.rejectionListeners = @ \cup {c},
                      !.cleanupErrors[c] = TRUE]
  IN IF S.config[c].interceptConsole
     THEN [S1 EXCEPT !.originalConsole[c] =
                       [captured |-> TRUE, error |-> S.console.error,
                        warn |-> S.console.warn],
                     !.console = [error |-> c, warn |-> c]]
     ELSE S1

\* The teardown closure setupErrorHandlers returns (lines 177-182).
cleanupErrorHandlers(S, c) ==
  LET S1 == [S EXCEPT !.windowOnerror = 0,
                      !.rejectionListeners = @ \ {c}]
  IN IF S.originalConsole[c].captured
     THEN [S1 EXCEPT !.console = [error |-> S.originalConsole[c].error,
                                  warn |-> S.originalConsole[c].warn]]
     ELSE S1

\* ------------------------------------------------- client.ts, continued
captureError(S, c, hash) ==
  IF S.disabled[c] THEN S
  ELSE captureErrorEvent(S, S.config[c].sessionTimeout, hash)

captureMessage(S, c, hash) ==
  IF S.disabled[c] THEN S
  ELSE captureMessageEvent(S, S.config[c].sessionTimeout, hash)

\* visitor.ts setVisitorId: overwrite the stored visitor id of the mode.
setVisitorId(S, id, cookieDomain) ==
  IF cookieDomain
  THEN setCookie(S, "hm_vid", id, VISITOR_COOKIE_MAX_AGE)
  ELSE [S EXCEPT !.localStorage["hm_visitor_id"] = id]

\* Lines 172-192: read the visitor id and start the fetch.
identify(S, c) ==
  IF S.disabled[c] THEN S
  ELSE LET vid == getVisitorId(S, S.config[c].cookieDomain)
           promise == S.fetchSeq + 1
           S1 == [vid.s EXCEPT
                    !.fetchSeq = promise,
                    !.identifyRequests =
                       @ \cup {[promise |-> promise, client |-> c,
                                currentVisitorId |-> vid.v,
                                cookieDomain |-> S.config[c].cookieDomain]}]
       IN IF vid.s.exception THEN vid.s
          ELSE [S1 EXCEPT !.sent = Append(@, [Payload("identify", S) EXCEPT
                                                !.client = c,
                                                !.visitorId = vid.v])]

\* What the identify route can answer: an OK response whose body carries a
\* visitorId (0: the body has none), a non-OK response, a network failure.
Responses(ids) ==
  [kind : {"ok"}, visitorId : ids \cup {0}]
    \cup [kind : {"notOk", "networkFailure"}, visitorId : {0}]

\* Lines 193-203: the .then / .then / .catch chain of request r.
identifyResponded(S, r, res, B) ==
  LET S1 == [S EXCEPT !.identifyRequests = @ \ {r}]
      json == IF res.kind = "ok" THEN res.visitorId ELSE 0
  IN IF res.kind = "networkFailure" THEN S1
     ELSE IF json # 0 /\ json # r.currentVisitorId
     THEN [setVisitorId(S1, json, r.cookieDomain) EXCEPT
             !.canonicalId = IF B.history THEN json ELSE @]
     ELSE S1

clientGetVisitorId(S, c) == getVisitorId(S, S.config[c].cookieDomain)

\* Lines 228-242 up to `await fetch(url)`: the promise fetchVisitorInfo
\* returns.  A throw of getVisitorId is caught, and the finally block then
\* runs before the caller has stored the promise.
fetchVisitorInfo(S, c) ==
  LET promise == S.fetchSeq + 1
      vid == getVisitorId(S, S.config[c].cookieDomain)
  IN IF vid.s.exception
     THEN [s |-> [S EXCEPT !.fetchSeq = promise,
                           !.visitorInfoPromise[c] = 0],
           v |-> promise]
     ELSE [s |-> [sendPost(vid.s, [Payload("visitor-info", S) EXCEPT
                                     !.client = c, !.visitorId = vid.v])
                  EXCEPT !.fetchSeq = promise,
                         !.infoRequests =
                            @ \cup {[promise |-> promise, client |-> c]}],
           v |-> promise]

\* getVisitorInfo that starts a fetch whenever nothing is cached.
getVisitorInfoNoSharing(S, c) ==
  IF S.disabled[c] THEN [s |-> S, v |-> 0, how |-> "null"]
  ELSE IF S.visitorInfoCache[c] # 0
  THEN [s |-> S, v |-> S.visitorInfoCache[c], how |-> "cached"]
  ELSE LET f == fetchVisitorInfo(S, c)
       IN [s |-> [f.s EXCEPT !.visitorInfoPromise[c] = f.v],
           v |-> f.v, how |-> "promise"]

\* Lines 220-226; `how` tells a cached value from a promise.
getVisitorInfo(S, c) ==
  IF S.disabled[c] THEN [s |-> S, v |-> 0, how |-> "null"]
  ELSE IF S.visitorInfoCache[c] # 0
  THEN [s |-> S, v |-> S.visitorInfoCache[c], how |-> "cached"]
  ELSE IF S.visitorInfoPromise[c] # 0
  THEN [s |-> S, v |-> S.visitorInfoPromise[c], how |-> "promise"]
  ELSE LET f == fetchVisitorInfo(S, c)
       IN [s |-> [f.s EXCEPT !.visitorInfoPromise[c] = f.v],
           v |-> f.v, how |-> "promise"]

\* What the visitor-info route can answer: an OK response with a VisitorInfo
\* object, an OK response whose body does not parse, a non-OK response, a
\* network failure.
InfoResponses ==
  [kind : {"ok"}, data : {1, 2}]
    \cup [kind : {"badJson", "notOk", "networkFailure"}, data : {0}]

\* Lines 232-241: the rest of fetchVisitorInfo once request r is answered.
visitorInfoResponded(S, r, res) ==
  LET S1 == [S EXCEPT !.infoRequests = @ \ {r}]
  IN IF res.kind = "ok"
     THEN [S1 EXCEPT !.visitorInfoCache[r.client] = res.data,
                     !.visitorInfoPromise[r.client] = 0]
     ELSE [S1 EXCEPT !.visitorInfoPromise[r.client] = 0]

destroy(S, c) ==
  LET S1 == flushPendingPageView(S, c)
      S2 == IF S1.cleanupErrors[c] THEN cleanupErrorHandlers(S1, c) ELSE S1
      S3 == sendDuration(S2, c)
  IN [S3 EXCEPT !.himetricaInitialized = FALSE]

\* patchHistory without the patched-flag check: every setup wraps again.
patchHistoryAgain(S) ==
  [S EXCEPT !.himetricaPushStatePatched = TRUE,
            !.himetricaPageViewListeners = <<>>,
            !.historyWrappers = @ + 1]

\* Lines 366-400: wrap history.pushState / replaceState, listen to popstate.
patchHistory(S) ==
  IF ~S.himetricaPushStatePatched
  THEN [S EXCEPT !.himetricaPushStatePatched = TRUE,
                 !.himetricaPageViewListeners = <<>>,
                 !.historyWrappers = @ + 1]
  ELSE S

registerListener(S, c) ==
  [S EXCEPT !.himetricaPageViewListeners = Append(@, c)]

setupAutoPageViews(S, c) ==
  IF S.autoPageViewsSetup[c] THEN S
  ELSE
    LET S1 == [S EXCEPT !.autoPageViewsSetup[c] = TRUE]
        S2 == IF S1.readyState = "complete"
              THEN trackPageView(S1, c, Undefined)
              ELSE [S1 EXCEPT !.loadListeners = Append(@, c)]
    IN IF S2.exception THEN S2 ELSE registerListener(patchHistory(S2), c)

\* vitals.ts: the five web-vitals subscriptions of one setupVitals call.
setupVitals(S, c) == [S EXCEPT !.vitalsCallbacks = Append(@, c)]

\* vitals.ts lines 9-20: sendVital of the subscription of instance c.
sendVital(S, c, metric) ==
  LET vid == getVisitorId(S, S.config[c].cookieDomain)
      sid == getSessionId(vid.s, S.config[c].sessionTimeout,
                          S.config[c].cookieDomain)
  IN IF vid.s.exception THEN vid.s
     ELSE IF sid.s.exception THEN sid.s
     ELSE sendBeacon(sid.s, [Payload("vitals", S) EXCEPT
                               !.client = c, !.visitorId = vid.v,
                               !.sessionId = sid.v, !.metric = metric,
                               !.path = S.location.pathname])

isNestedFrame(S) == S.env.frame # "top"

alreadyInitialized(S) == S.himetricaInitialized

constructor(S, c, userConfig) ==
  LET S0 == [S EXCEPT !.constructed[c] = TRUE, !.config[c] = userConfig]
  IN IF isNestedFrame(S0) THEN [S0 EXCEPT !.disabled[c] = TRUE]
     ELSE IF S0.env.loopback THEN [S0 EXCEPT !.disabled[c] = TRUE]
     ELSE IF alreadyInitialized(S0) THEN S0
     ELSE
       LET S1 == [S0 EXCEPT !.himetricaInitialized = TRUE]
           S2 == IF userConfig.autoTrackErrors
                 THEN setupErrorHandlers(S1, c) ELSE S1
           S3 == IF userConfig.trackVitals THEN setupVitals(S2, c) ELSE S2
       IN IF userConfig.respectDoNotTrack /\ S1.env.doNotTrack THEN S1
          ELSE IF userConfig.autoTrackPageViews
          THEN setupAutoPageViews(S3, c) ELSE S3

\* ------------------------------------------------------ browser events
RECURSIVE notifyListeners(_, _)
notifyListeners(S, listeners) ==
  IF listeners = <<>> \/ S.exception THEN S
  ELSE notifyListeners(trackPageView(S, Head(listeners), Undefined),
                       Tail(listeners))

\* history.pushState / replaceState as the page sees it: the original
\* primitive, then every wrapper's walk over the shared listener list.
RECURSIVE wrappedNavigation(_, _)
wrappedNavigation(S, wrappers) ==
  IF wrappers = 0 \/ S.exception THEN S
  ELSE wrappedNavigation(
         notifyListeners(S, S.himetricaPageViewListeners), wrappers - 1)

navigate(S, url) ==
  wrappedNavigation([S EXCEPT !.location = url], S.historyWrappers)

\* visibilitychange (to hidden) and beforeunload: each instance that ran
\* setupAutoPageViews added its own listener, in registration order.
RECURSIVE sendDurations(_, _)
sendDurations(S, listeners) ==
  IF listeners = <<>> THEN S
  ELSE sendDurations(sendDuration(S, Head(listeners)), Tail(listeners))

\* History only, in the runs that keep it: the page views whose debounce
\* delay is still running.
notePending(S, B) ==
  IF B.history
  THEN [S EXCEPT !.hiddenPending =
          @ \cup {t.data.pageViewId : t \in {u \in S.timers : u.due > S.now}}]
  ELSE S

\* The document goes away and another one is loaded in the same tab: every
\* object, timer, listener and global of the page is gone; localStorage,
\* sessionStorage and the cookies stay.
newDocument(S, url, referrer, rs) ==
  [S EXCEPT
     !.env.referrer = referrer, !.readyState = rs, !.location = url,
     !.constructed = Fresh(FALSE), !.config = Fresh(NoConfig),
     !.disabled = Fresh(FALSE), !.currentPageViewId = Fresh(0),
     !.pageViewStartTime = Fresh(0), !.lastTrackedPath = Fresh(NoPath),
     !.autoPageViewsSetup = Fresh(FALSE), !.pendingPageViewTimer = Fresh(0),
     !.pendingPageViewData = Fresh(NoData), !.isFirstPageView = Fresh(TRUE),
     !.cleanupErrors = Fresh(FALSE), !.himetricaInitialized = FALSE,
     !.himetricaPushStatePatched = FALSE,
     !.himetricaPageViewListeners = <<>>, !.historyWrappers = 0,
     !.loadListeners = <<>>, !.windowOnerror = S.env.onerror,
     !.rejectionListeners = {},
     !.timers = {}, !.errorTimestamps = <<>>, !.sentErrorHashes = {},
     !.dedupTimers = {}, !.console = [error |-> 0, warn |-> 0],
     !.originalConsole = Fresh([captured |-> FALSE, error |-> 0, warn |-> 0]),
     !.vitalsCallbacks = <<>>, !.destroyed = {}, !.identifyRequests = {},
     !.vitalsFired = {}, !.visitorInfoCache = Fresh(0),
     !.visitorInfoPromise = Fresh(0), !.infoRequests = {}]

windowLoaded(S) ==
  notifyListeners([S EXCEPT !.readyState = "complete", !.loadListeners = <<>>],
                  S.loadListeners)

\* ------------------------------------------------------------------ Init
InitWith(e, rs) ==
  /\ now = Epoch
  /\ env = e
  /\ readyState = rs
  /\ location = [pathname |-> "/", search |-> ""]
  /\ constructed = Fresh(FALSE)
  /\ config = Fresh(NoConfig)
  /\ disabled = Fresh(FALSE)
  /\ currentPageViewId = Fresh(0)
  /\ pageViewStartTime = Fresh(0)
  /\ lastTrackedPath = Fresh(NoPath)
  /\ autoPageViewsSetup = Fresh(FALSE)
  /\ pendingPageViewTimer = Fresh(0)
  /\ pendingPageViewData = Fresh(NoData)
  /\ isFirstPageView = Fresh(TRUE)
  /\ cleanupErrors = Fresh(FALSE)
  /\ himetricaInitialized = FALSE
  /\ himetricaPushStatePatched = FALSE
  /\ himetricaPageViewListeners = <<>>
  /\ historyWrappers = 0
  /\ loadListeners = <<>>
  /\ windowOnerror = e.onerror
  /\ rejectionListeners = {}
  /\ timers = {}
  /\ timerSeq = 0
  /\ idSeq = 0
  /\ errorTimestamps = <<>>
  /\ sentErrorHashes = {}
  /\ dedupTimers = {}
  /\ localStorage = [k \in {"hm_visitor_id"} |-> 0]
  /\ sessionStorage =
       [k \in {"hm_session_id", "hm_session_timestamp", "hm_original_referrer"}
          |-> IF k = "hm_original_referrer" THEN NullString ELSE 0]
  /\ cookies =
       [k \in CookieNames |-> NoCookie(k)]
  /\ sent = <<>>
  /\ cancelled = {}
  /\ lastSession = [m \in BOOLEAN |-> [id |-> 0, at |-> 0]]
  /\ console = [error |-> 0, warn |-> 0]
  /\ originalConsole = Fresh([captured |-> FALSE, error |-> 0, warn |-> 0])
  /\ vitalsCallbacks = <<>>
  /\ hiddenPending = {}
  /\ destroyed = {}
  /\ identifyRequests = {}
  /\ fetchSeq = 0
  /\ canonicalId = 0
  /\ exception = FALSE
  /\ vitalsFired = {}
  /\ visitorInfoCache = Fresh(0)
  /\ visitorInfoPromise = Fresh(0)
  /\ infoRequests = {}
  /\ op = [name |-> "init", c |-> 0, arg |-> <<>>, n |-> 0]

Op(name, c, arg, n) == [name |-> name, c |-> c, arg |-> arg, n |-> n]

\* What a run explores: ids, payloads and timer handles stay within budget B
\* (B.history: the run keeps hiddenPending, destroyed and canonicalId).
Within(S, B) ==
  /\ S.idSeq <= B.ids
  /\ S.timerSeq <= B.timers
  /\ Len(S.sent) <= B.sent
  /\ Len(S.errorTimestamps) <= B.errors

noteDestroyed(S, c, B) ==
  IF B.history THEN [S EXCEPT !.destroyed = @ \cup {c}] ELSE S

\* --------------------------------------------------------------- actions
Construct(c, cfg, B) ==
  /\ ~constructed[c]
  /\ \A d \in Clients : d < c => constructed[d]
  /\ LET S == constructor(Cur, c, cfg)
     IN Within(S, B) /\ Commit(S, Op("construct", c, <<>>, 0))

TrackPageView(c, path, B) ==
  /\ constructed[c]
  /\ LET S == trackPageView(Cur, c, path)
     IN Within(S, B) /\ Commit(S, Op("trackPageView", c, <<path>>, 0))

PageViewTimerFire(t, B) ==
  /\ t \in timers
  /\ t.due <= now
  /\ LET S == pageViewTimerFired(Cur, t)
     IN Within(S, B) /\ Commit(S, Op("timer", t.owner, <<>>, t.id))

Track(c, eventName, B) ==
  /\ constructed[c]
  /\ LET S == track(Cur, c, eventName)
     IN Within(S, B) /\ Commit(S, Op("track", c, eventName, 0))

Flush(c, B) ==
  /\ constructed[c]
  /\ LET S == flush(Cur, c)
     IN Within(S, B) /\ Commit(S, Op("flush", c, <<>>, 0))

Destroy(c, B) ==
  /\ constructed[c]
  /\ LET S == noteDestroyed(destroy(Cur, c), c, B)
     IN Within(S, B) /\ Commit(S, Op("destroy", c, <<>>, 0))

Identify(c, maxFetches, B) ==
  /\ constructed[c]
  /\ fetchSeq < maxFetches
  /\ LET S == identify(Cur, c)
     IN Within(S, B) /\ Commit(S, Op("identify", c, <<>>, 0))

IdentifyResponse(r, res, B) ==
  /\ r \in identifyRequests
  /\ LET S == identifyResponded(Cur, r, res, B)
     IN Within(S, B)
        /\ Commit(S, Op("identifyResponse", r.client, <<res.kind>>,
                        res.visitorId))

GetVisitorId(c, B) ==
  /\ constructed[c]
  /\ LET r == clientGetVisitorId(Cur, c)
     IN Within(r.s, B) /\ Commit(r.s, Op("getVisitorId", c, <<>>, r.v))

GetVisitorInfo(c, maxFetches, B) ==
  /\ constructed[c]
  /\ LET r == getVisitorInfo(Cur, c)
     IN /\ r.s.fetchSeq <= maxFetches
        /\ Within(r.s, B)
        /\ Commit(r.s, Op("getVisitorInfo", c, <<r.how>>, r.v))

VisitorInfoResponse(r, res, B) ==
  /\ r \in infoRequests
  /\ LET S == visitorInfoResponded(Cur, r, res)
     IN Within(S, B)
        /\ Commit(S, Op("visitorInfoResponse", r.client, <<res.kind>>,
                        r.promise))

PushState(url, B) ==
  /\ url # location
  /\ LET S == navigate(Cur, url)
     IN Within(S, B) /\ Commit(S, Op("pushState", 0, <<>>, 0))

PopState(url, B) ==
  /\ url # location
  /\ LET S == navigate(Cur, url)
     IN Within(S, B) /\ Commit(S, Op("popstate", 0, <<>>, 0))

VisibilityHidden(B) ==
  LET S == sendDurations(notePending(Cur, B), himetricaPageViewListeners)
  IN Within(S, B) /\ Commit(S, Op("hidden", 0, <<>>, 0))

WindowLoad(B) ==
  /\ readyState = "loading"
  /\ LET S == windowLoaded(Cur)
     IN Within(S, B) /\ Commit(S, Op("load", 0, <<>>, 0))

BeforeUnload(B) ==
  LET S == sendDurations(Cur, himetricaPageViewListeners)
  IN Within(S, B) /\ Commit(S, Op("beforeunload", 0, <<>>, 0))

\* The page is left for another document: the beforeunload listeners run,
\* then the document is gone.
Unload(url, referrer, B) ==
  LET S == newDocument(
             sendDurations(notePending(Cur, B), himetricaPageViewListeners),
             url, referrer, "complete")
  IN Within(S, B) /\ Commit(S, Op("unload", 0, <<>>, 0))

CaptureError(c, hash, B) ==
  /\ constructed[c]
  /\ LET S == captureError(Cur, c, hash)
     IN Within(S, B) /\ Commit(S, Op("captureError", c, <<>>, hash))

CaptureMessage(c, hash, B) ==
  /\ constructed[c]
  /\ LET S == captureMessage(Cur, c, hash)
     IN Within(S, B) /\ Commit(S, Op("captureMessage", c, <<>>, hash))

\* An uncaught exception reaches window.onerror; the SDK's handler, when it
\* is the one installed, captures it with its instance's configuration.
WindowError(hash, B) ==
  /\ windowOnerror \in Clients
  /\ LET S == captureErrorEvent(Cur, config[windowOnerror].sessionTimeout, hash)
     IN Within(S, B)
        /\ Commit(S, Op("onerror", windowOnerror, <<>>, hash))

\* Lines 158-164: the console.error wrapper of instance h calls what
\* console.error was when h wrapped it, then captures the message.
RECURSIVE consoleErrorCalled(_, _, _)
consoleErrorCalled(S, h, hash) ==
  IF h \in Clients
  THEN LET S1 == consoleErrorCalled(S, S.originalConsole[h].error, hash)
       IN IF S1.exception THEN S1
          ELSE captureErrorEvent(S1, S.config[h].sessionTimeout, hash)
  ELSE S

\* The host application calls console.error while an SDK wrapper is in place.
ConsoleError(hash, B) ==
  /\ console.error \in Clients
  /\ LET S == consoleErrorCalled(Cur, console.error, hash)
     IN Within(S, B)
        /\ Commit(S, Op("console.error", console.error, <<>>, hash))

\* The browser starts to deny the page's localStorage and sessionStorage
\* (every access raises), as after a change of the site's storage permission.
StorageDenied ==
  /\ ~env.storageThrows
  /\ Commit([Cur EXCEPT !.env.storageThrows = TRUE],
            Op("storageDenied", 0, <<>>, 0))

\* web-vitals delivers metric m to subscription k, once per subscription.
Metrics == {"TTFB", "FCP", "LCP", "CLS", "INP"}
VitalMeasured(k, m, B) ==
  /\ k \in DOMAIN vitalsCallbacks
  /\ <<k, m>> \notin vitalsFired
  /\ LET S == [sendVital(Cur, vitalsCallbacks[k], m) EXCEPT
                !.vitalsFired = @ \cup {<<k, m>>}]
     IN Within(S, B) /\ Commit(S, Op("vital", vitalsCallbacks[k], <<m>>, k))

DedupTimerFire(t) ==
  /\ t \in dedupTimers
  /\ t.due <= now
  /\ Commit(dedupTimerFired(Cur, t), Op("dedupTimer", 0, <<>>, t.hash))

\* A read of the session id with the client's configuration.
GetSessionId(c, B) ==
  /\ constructed[c]
  /\ LET r == getSessionId(Cur, config[c].sessionTimeout, config[c].cookieDomain)
     IN Within(r.s, B) /\ Commit(r.s, Op("getSessionId", c, <<>>, r.v))

\* Time passes: d ms, within `horizon` ms of the last long pause.
Tick(d, horizon, period) ==
  /\ ((now - Epoch) % period) + d <= horizon
  /\ Commit([Cur EXCEPT !.now = @ + d], Op("tick", 0, <<>>, d))

\* A long pause of `period` ms with nothing happening on the page.
Pause(period, pauses) ==
  /\ (now - Epoch) \div period < pauses
  /\ Commit([Cur EXCEPT !.now = @ + period], Op("pause", 0, <<>>, period))

\* ------------------------------------------- page-view lifecycle runs
TopEnv ==
  [frame |-> "top", loopback |-> FALSE, doNotTrack |-> FALSE,
   referrer |-> "external", onerror |-> 0, storageThrows |-> FALSE]

PVConfigs ==
  [autoTrackPageViews : BOOLEAN, autoTrackErrors : {FALSE},
   interceptConsole : {FALSE}, trackVitals : {FALSE},
   respectDoNotTrack : {TRUE}, sessionTimeout : {DEFAULT_SESSION_TIMEOUT},
   cookieDomain : {FALSE}]

PVSteps == {400}
PVHorizon == 1200
PVPause == 3600000
PVBudget == [ids |-> MaxIds, sent |-> MaxSent, timers |-> MaxTimers,
   errors |-> MaxCaptures, history |-> FALSE]
Urls == [pathname : Pathnames, search : {""}]

Init == InitWith(TopEnv, "complete")

Next ==
  \/ \E cfg \in PVConfigs : Construct(1, cfg, PVBudget)
  \/ \E p \in Pathnames \cup {Undefined} : TrackPageView(1, p, PVBudget)
  \/ \E t \in timers : PageViewTimerFire(t, PVBudget)
  \/ Flush(1, PVBudget)
  \/ Destroy(1, PVBudget)
  \/ \E u \in Urls : PushState(u, PVBudget)
  \/ VisibilityHidden(PVBudget)
  \/ BeforeUnload(PVBudget)
  \/ \E d \in PVSteps : Tick(d, PVHorizon, PVPause)
  \/ Pause(PVPause, 1)

Spec == Init /\ [][Next]_vars

\* ----------------------------------------------- several instances runs
MultiHorizon == 400
MultiBudget ==
  [ids |-> MultiMaxIds, sent |-> MultiMaxSent, timers |-> MultiMaxTimers,
   errors |-> MaxCaptures, history |-> FALSE]

NextMulti ==
  \/ \E c \in Pair, cfg \in PVConfigs : Construct(c, cfg, MultiBudget)
  \/ \E c \in Pair : Destroy(c, MultiBudget)
  \/ \E u \in Urls : PushState(u, MultiBudget)
  \/ \E u \in Urls : PopState(u, MultiBudget)
  \/ \E t \in timers : PageViewTimerFire(t, MultiBudget)
  \/ \E d \in PVSteps : Tick(d, MultiHorizon, PVPause)

SpecMulti == Init /\ [][NextMulti]_vars

\* ------------------------------------------------ disabled-instance runs
FrameEnvs ==
  {[frame |-> f, loopback |-> FALSE, doNotTrack |-> FALSE,
    referrer |-> "external", onerror |-> 0, storageThrows |-> FALSE] : f \in Frames \ {"top"}}

FrameConfigs ==
  [autoTrackPageViews : {TRUE}, autoTrackErrors : {TRUE},
   interceptConsole : {FALSE}, trackVitals : {FALSE},
   respectDoNotTrack : {TRUE}, sessionTimeout : {DEFAULT_SESSION_TIMEOUT},
   cookieDomain : BOOLEAN]

ValidName == <<118, 97, 108, 105, 100, 95, 110, 97, 109, 101, 45, 49>>
InvalidName == <<97, 32, 98>>

InitFrame == \E e \in FrameEnvs : InitWith(e, "complete")

NextFrame ==
  \/ \E cfg \in FrameConfigs : Construct(1, cfg, PVBudget)
  \/ \E p \in {"/a", Undefined} : TrackPageView(1, p, PVBudget)
  \/ Track(1, ValidName, PVBudget)
  \/ CaptureError(1, 1, PVBudget)
  \/ CaptureMessage(1, 2, PVBudget)
  \/ GetVisitorId(1, PVBudget)
  \/ Flush(1, PVBudget)
  \/ Destroy(1, PVBudget)
  \/ \E u \in Urls : PushState(u, PVBudget)
  \/ \E d \in PVSteps : Tick(d, MultiHorizon, PVPause)

SpecFrame == InitFrame /\ [][NextFrame]_vars

\* ------------------------------------------------- hidden / unload runs
HiddenConfigs ==
  [autoTrackPageViews : {TRUE}, autoTrackErrors : {FALSE},
   interceptConsole : {FALSE}, trackVitals : {FALSE},
   respectDoNotTrack : {TRUE}, sessionTimeout : {DEFAULT_SESSION_TIMEOUT},
   cookieDomain : {FALSE}]

HiddenBudget ==
  [ids |-> MaxIds, sent |-> MaxSent, timers |-> MaxTimers,
   errors |-> MaxCaptures, history |-> TRUE]

NextHidden ==
  \/ \E cfg \in HiddenConfigs : Construct(1, cfg, HiddenBudget)
  \/ \E t \in timers : PageViewTimerFire(t, HiddenBudget)
  \/ \E u \in Urls : PushState(u, HiddenBudget)
  \/ VisibilityHidden(HiddenBudget)
  \/ \E u \in Urls : Unload(u, "", HiddenBudget)
  \/ \E d \in PVSteps : Tick(d, PVHorizon, PVPause)

SpecHidden == Init /\ [][NextHidden]_vars

\* ------------------------------------------------------ do-not-track runs
DntEnv ==
  [frame |-> "top", loopback |-> FALSE, doNotTrack |-> TRUE,
   referrer |-> "external", onerror |-> 0, storageThrows |-> FALSE]

DntConfigs ==
  [autoTrackPageViews : {TRUE}, autoTrackErrors : {TRUE},
   interceptConsole : {TRUE}, trackVitals : {TRUE},
   respectDoNotTrack : {TRUE}, sessionTimeout : {DEFAULT_SESSION_TIMEOUT},
   cookieDomain : BOOLEAN]

InitDnt == InitWith(DntEnv, "complete")

NextDnt ==
  \/ \E cfg \in DntConfigs : Construct(1, cfg, PVBudget)
  \/ \E p \in {"/a", Undefined} : TrackPageView(1, p, PVBudget)
  \/ \E t \in timers : PageViewTimerFire(t, PVBudget)
  \/ Track(1, ValidName, PVBudget)
  \/ CaptureError(1, 1, PVBudget)
  \/ CaptureMessage(1, 2, PVBudget)
  \/ \E u \in Urls : PushState(u, PVBudget)
  \/ \E d \in PVSteps : Tick(d, MultiHorizon, PVPause)

SpecDnt == InitDnt /\ [][NextDnt]_vars

\* ------------------------------------------------------ event-name runs
NameAlphabet == {97, 90, 49, 95, 45, 32, 64, 91, 96, 123}
PairAlphabet == {97, 49, 45, 32}
Repeat(ch, n) == [i \in 1..n |-> ch]
EventNames ==
  {<<>>, NotAString, ValidName, InvalidName}
    \cup {<<a>> : a \in NameAlphabet}
    \cup {<<a, b>> : a \in PairAlphabet, b \in PairAlphabet}
    \cup {Repeat(97, n) : n \in {MAX_EVENT_NAME_LENGTH, MAX_EVENT_NAME_LENGTH + 1}}

TrackConfigs ==
  [autoTrackPageViews : {FALSE}, autoTrackErrors : {FALSE},
   interceptConsole : {FALSE}, trackVitals : {FALSE},
   respectDoNotTrack : {TRUE}, sessionTimeout : {DEFAULT_SESSION_TIMEOUT},
   cookieDomain : BOOLEAN]

TrackBudget == [ids |-> MaxIds, sent |-> TrackMaxSent, timers |-> MaxTimers,
   errors |-> MaxCaptures, history |-> FALSE]

NextTrack ==
  \/ \E cfg \in TrackConfigs : Construct(1, cfg, TrackBudget)
  \/ \E name \in EventNames : Track(1, name, TrackBudget)

SpecTrack == Init /\ [][NextTrack]_vars

\* --------------------------------------------------- identity-store runs
SessionTimeouts == {1400}
SessionConfigs ==
  [autoTrackPageViews : {FALSE}, autoTrackErrors : {FALSE},
   interceptConsole : {FALSE}, trackVitals : {FALSE},
   respectDoNotTrack : {TRUE}, sessionTimeout : SessionTimeouts,
   cookieDomain : BOOLEAN]

SessionSteps == {1200}
SessionHorizon == 2400
SessionBudget ==
  [ids |-> SessionMaxIds, sent |-> SessionMaxSent, timers |-> SessionMaxTimers,
   errors |-> MaxCaptures, history |-> FALSE]

NextSession ==
  \/ \E cfg \in SessionConfigs : Construct(1, cfg, SessionBudget)
  \/ GetSessionId(1, SessionBudget)
  \/ GetVisitorId(1, SessionBudget)
  \/ TrackPageView(1, "/a", SessionBudget)
  \/ \E t \in timers : PageViewTimerFire(t, SessionBudget)
  \/ Track(1, ValidName, SessionBudget)
  \/ CaptureError(1, 1, SessionBudget)
  \/ Flush(1, SessionBudget)
  \/ Destroy(1, SessionBudget)
  \/ \E d \in SessionSteps : Tick(d, SessionHorizon, PVPause)

SpecSession == Init /\ [][NextSession]_vars

\* ------------------------------------------------------ error-guard runs
ErrorConfigs ==
  [autoTrackPageViews : {FALSE}, autoTrackErrors : {TRUE},
   interceptConsole : {FALSE}, trackVitals : {FALSE},
   respectDoNotTrack : {TRUE}, sessionTimeout : {DEFAULT_SESSION_TIMEOUT},
   cookieDomain : {FALSE}]

\* Fingerprints are interchangeable: a capture brings fingerprint 1, then the
\* least fingerprint not sent before, or one that has been sent.
Hashes == 1..NumHashes
SentHashes == {sent[i].hash : i \in {k \in DOMAIN sent : sent[k].route = "errors"}}
CaptureHashes == {h \in Hashes : h = 1 \/ h - 1 \in SentHashes}

RateSteps == {RATE_LIMIT_WINDOW, RATE_LIMIT_WINDOW + 1}
RateHorizon == RATE_LIMIT_WINDOW + 1
RateBudget ==
  [ids |-> MaxIds, sent |-> MaxErrSent, timers |-> MaxTimers,
   errors |-> MaxErrSent, history |-> FALSE]

NextRate ==
  \/ \E c \in Pair, cfg \in ErrorConfigs : Construct(c, cfg, RateBudget)
  \/ \E c \in Pair, h \in CaptureHashes : CaptureError(c, h, RateBudget)
  \/ \E c \in Pair, h \in CaptureHashes : CaptureMessage(c, h, RateBudget)
  \/ \E h \in CaptureHashes : WindowError(h, RateBudget)
  \/ \E d \in RateSteps : Tick(d, RateHorizon, PVPause)

SpecRate == Init /\ [][NextRate]_vars

DedupSteps == {DEDUP_EXPIRY \div 2}
DedupHorizon == 2 * DEDUP_EXPIRY
DedupHashes == {1, 2}
DedupBudget ==
  [ids |-> MaxIds, sent |-> DedupMaxSent, timers |-> MaxTimers,
   errors |-> MaxErrSent, history |-> FALSE]

NextDedup ==
  \/ \E cfg \in ErrorConfigs : Construct(1, cfg, DedupBudget)
  \/ \E h \in DedupHashes : CaptureError(1, h, DedupBudget)
  \/ \E h \in DedupHashes : CaptureMessage(1, h, DedupBudget)
  \/ \E h \in DedupHashes : WindowError(h, DedupBudget)
  \/ \E t \in dedupTimers : DedupTimerFire(t)
  \/ \E d \in DedupSteps : Tick(d, DedupHorizon, PVPause)

SpecDedup == Init /\ [][NextDedup]_vars

\* ------------------------------------------------ global-hook runs
\* Instances with every global side effect enabled, on a page whose own
\* window.onerror is either unset or the host application's handler.
HookEnvs ==
  {[frame |-> "top", loopback |-> FALSE, doNotTrack |-> FALSE,
    referrer |-> "external", onerror |-> h, storageThrows |-> FALSE] :
     h \in {0, HostHandler}}

HookConfigs ==
  [autoTrackPageViews : {TRUE}, autoTrackErrors : {TRUE},
   interceptConsole : BOOLEAN, trackVitals : {TRUE},
   respectDoNotTrack : {TRUE}, sessionTimeout : {DEFAULT_SESSION_TIMEOUT},
   cookieDomain : {FALSE}]

HookBudget == [MultiBudget EXCEPT !.history = TRUE]

InitHooks == \E e \in HookEnvs : InitWith(e, "complete")

NextHooks ==
  \/ \E c \in Clients, cfg \in HookConfigs : Construct(c, cfg, HookBudget)
  \/ \E c \in Clients : Destroy(c, HookBudget)
  \/ \E h \in DedupHashes : WindowError(h, HookBudget)
  \/ \E h \in DedupHashes : ConsoleError(h, HookBudget)
  \/ \E t \in timers : PageViewTimerFire(t, HookBudget)
  \/ \E d \in PVSteps : Tick(d, MultiHorizon, PVPause)

SpecHooks == InitHooks /\ [][NextHooks]_vars

\* ------------------------------------------------ identity-merge runs
MergeConfigs ==
  [autoTrackPageViews : BOOLEAN, autoTrackErrors : {FALSE},
   interceptConsole : {FALSE}, trackVitals : {FALSE},
   respectDoNotTrack : {TRUE}, sessionTimeout : {DEFAULT_SESSION_TIMEOUT},
   cookieDomain : BOOLEAN]

\* Canonical ids of the collection service; the client generates none of them.
ServerIds == {0 - 1, 0 - 2}
MergeBudget ==
  [ids |-> MaxIds, sent |-> MergeMaxSent, timers |-> MaxTimers,
   errors |-> MaxCaptures, history |-> TRUE]

NextMerge ==
  \/ \E cfg \in MergeConfigs : Construct(1, cfg, MergeBudget)
  \/ Identify(1, MaxFetches, MergeBudget)
  \/ \E r \in identifyRequests :
       \E res \in Responses(ServerIds \cup {r.currentVisitorId}) :
         IdentifyResponse(r, res, MergeBudget)
  \/ GetVisitorId(1, MergeBudget)
  \/ Track(1, ValidName, MergeBudget)
  \/ \E h \in DedupHashes : CaptureError(1, h, MergeBudget)
  \/ \E t \in timers : PageViewTimerFire(t, MergeBudget)
  \/ \E d \in PVSteps : Tick(d, MultiHorizon, PVPause)

SpecMerge == Init /\ [][NextMerge]_vars

\* ------------------------------------------------ attribution runs
\* Page loads with any document.referrer and URLs with and without UTM
\* parameters, in both storage modes, across a session expiry.
Referrers == {"", "sibling", "external"}
AttrEnvs ==
  {[frame |-> "top", loopback |-> FALSE, doNotTrack |-> FALSE,
    referrer |-> r, onerror |-> 0, storageThrows |-> FALSE] :
     r \in Referrers}

\* A timeout that one step of the clock stays within and two steps exceed.
AttrTimeouts == {1600}
AttrConfigs ==
  [autoTrackPageViews : {TRUE}, autoTrackErrors : {FALSE},
   interceptConsole : {FALSE}, trackVitals : {FALSE},
   respectDoNotTrack : {TRUE}, sessionTimeout : AttrTimeouts,
   cookieDomain : BOOLEAN]

AttrUrls == [pathname : {"/"}, search : Searches]
AttrBudget ==
  [ids |-> AttrMaxIds, sent |-> AttrMaxSent, timers |-> AttrMaxTimers,
   errors |-> MaxCaptures, history |-> FALSE]

InitAttr == \E e \in AttrEnvs : InitWith(e, "complete")

NextAttr ==
  \/ \E cfg \in AttrConfigs : Construct(1, cfg, AttrBudget)
  \/ \E u \in AttrUrls : PushState(u, AttrBudget)
  \/ \E t \in timers : PageViewTimerFire(t, AttrBudget)
  \/ \E u \in AttrUrls, r \in Referrers : Unload(u, r, AttrBudget)
  \/ \E d \in SessionSteps : Tick(d, SessionHorizon, PVPause)

SpecAttr == InitAttr /\ [][NextAttr]_vars

\* The same page loads and navigations with every instance in cookie mode.
UtmConfigs == {cfg \in AttrConfigs : cfg.cookieDomain}

NextUtm ==
  \/ \E cfg \in UtmConfigs : Construct(1, cfg, AttrBudget)
  \/ \E u \in AttrUrls : PushState(u, AttrBudget)
  \/ \E t \in timers : PageViewTimerFire(t, AttrBudget)
  \/ \E u \in AttrUrls, r \in Referrers : Unload(u, r, AttrBudget)
  \/ \E d \in SessionSteps : Tick(d, SessionHorizon, PVPause)

SpecUtm == InitAttr /\ [][NextUtm]_vars

\* ------------------------------------------------ storage-fault runs
\* One instance, constructed while storage works, in either storage mode;
\* storage access then starts to fail.
FaultConfigs ==
  [autoTrackPageViews : {TRUE}, autoTrackErrors : {TRUE},
   interceptConsole : {FALSE}, trackVitals : {FALSE},
   respectDoNotTrack : {TRUE}, sessionTimeout : {DEFAULT_SESSION_TIMEOUT},
   cookieDomain : BOOLEAN]

FaultBudget ==
  [ids |-> MaxIds, sent |-> FaultMaxSent, timers |-> MaxTimers,
   errors |-> MaxCaptures, history |-> FALSE]

NextFault ==
  \/ \E cfg \in FaultConfigs :
       ~env.storageThrows /\ Construct(1, cfg, FaultBudget)
  \/ StorageDenied
  \/ \E p \in Pathnames : TrackPageView(1, p, FaultBudget)
  \/ Track(1, ValidName, FaultBudget)
  \/ Identify(1, MaxFetches, FaultBudget)
  \/ \E h \in DedupHashes : CaptureError(1, h, FaultBudget)
  \/ \E h \in DedupHashes : CaptureMessage(1, h, FaultBudget)
  \/ GetVisitorId(1, FaultBudget)
  \/ Flush(1, FaultBudget)
  \/ Destroy(1, FaultBudget)
  \/ \E u \in Urls : PushState(u, FaultBudget)
  \/ \E h \in DedupHashes : WindowError(h, FaultBudget)
  \/ \E t \in timers : PageViewTimerFire(t, FaultBudget)
  \/ \E d \in PVSteps : Tick(d, MultiHorizon, PVPause)

SpecFault == Init /\ [][NextFault]_vars

\* ------------------------------------------------ vitals runs
VitalsConfigs ==
  [autoTrackPageViews : {FALSE}, autoTrackErrors : {FALSE},
   interceptConsole : {FALSE}, trackVitals : {TRUE},
   respectDoNotTrack : {TRUE}, sessionTimeout : {DEFAULT_SESSION_TIMEOUT},
   cookieDomain : BOOLEAN]

VitalsBudget ==
  [ids |-> MaxIds, sent |-> VitalsMaxSent, timers |-> MaxTimers,
   errors |-> MaxCaptures, history |-> FALSE]

NextVitals ==
  \/ \E c \in Pair, cfg \in VitalsConfigs : Construct(c, cfg, VitalsBudget)
  \/ \E c \in Pair : Destroy(c, VitalsBudget)
  \/ \E k \in DOMAIN vitalsCallbacks, m \in Metrics :
       VitalMeasured(k, m, VitalsBudget)

SpecVitals == Init /\ [][NextVitals]_vars

\* ---------------------------------------------------------------- claims
Range(f) == {f[i] : i \in DOMAIN f}
Added == (Len(sent) + 1)..Len(sent')

\* C1: of the trackPageView calls made while a send is pending, only the last
\* call's payload is ever dispatched as a page-view event: a page view whose
\* pending send a later call cancelled is never dispatched and is pending
\* nowhere, a client has at most one pending send, and that send carries
\* the payload and the path of the last call.
C1_OnlyLastPageViewSent ==
  /\ \A i \in 1..Len(sent) :
       sent[i].route = "event" => sent[i].pageViewId \notin cancelled
  /\ \A t \in timers : t.data.pageViewId \notin cancelled
  /\ \A c \in Clients :
       /\ pendingPageViewData[c].pageViewId \notin cancelled
       /\ Cardinality({t \in timers : t.owner = c}) <= 1
       /\ \A t \in timers :
            t.owner = c => /\ t.data = pendingPageViewData[c]
                           /\ t.id = pendingPageViewTimer[c]
                           /\ t.data.path = lastTrackedPath[c][1]

\* An earlier send was cancelled and the timer then dispatched a later one.
C1_Witness ==
  /\ cancelled # {}
  /\ op.name = "timer"
  /\ \E i \in 1..Len(sent) :
       /\ sent[i].route = "event"
       /\ \A q \in cancelled : q < sent[i].pageViewId

\* The steps in which client c runs sendDuration: flush and destroy, the
\* visibility hook of a registered instance, a trackPageView with a new path.
SendDurationRuns(c) ==
  \/ op'.name \in {"flush", "destroy"} /\ op'.c = c
  \/ op'.name \in {"hidden", "beforeunload"}
     /\ c \in Range(himetricaPageViewListeners)
  \/ lastTrackedPath'[c] # lastTrackedPath[c]

BeaconsAdded(c) ==
  {i \in Added : sent'[i].route = "beacon" /\ sent'[i].client = c}

\* round(ms / 1000) lies in 1..3600 exactly when 500 <= ms < 3600500.
DurationReportable(c) ==
  /\ currentPageViewId[c] # 0
  /\ pageViewStartTime[c] # 0
  /\ 500 <= now - pageViewStartTime[c]
  /\ now - pageViewStartTime[c] < 3600500

\* C2: a sendDuration call dispatches a duration beacon if and only if a page
\* view is current and round((now - startTime) / 1000) is in 1..3600; the
\* beacon carries that page view's id and that duration, and no other step
\* dispatches a beacon.
C2_DurationSentIffInRange ==
  [][\A c \in Clients :
       /\ SendDurationRuns(c) => (BeaconsAdded(c) # {} <=> DurationReportable(c))
       /\ BeaconsAdded(c) # {} =>
            /\ SendDurationRuns(c)
            /\ Cardinality(BeaconsAdded(c)) = 1
            /\ \A i \in BeaconsAdded(c) :
                 /\ sent'[i].pageViewId = currentPageViewId[c]
                 /\ sent'[i].duration >= 1
                 /\ sent'[i].duration <= 3600
                 /\ 2 * (now - pageViewStartTime[c]) >= 2000 * sent'[i].duration - 1000
                 /\ 2 * (now - pageViewStartTime[c]) < 2000 * sent'[i].duration + 1000]_vars

\* flush() has just reported the longest duration that is still reported.
C2_Witness ==
  /\ op.name = "flush"
  /\ Len(sent) > 0
  /\ sent[Len(sent)].route = "beacon"
  /\ sent[Len(sent)].duration = 3600

Idle(c) == currentPageViewId[c] = 0 /\ pageViewStartTime[c] = 0

\* C3: after every sendDuration call the client is Idle (current page-view id
\* and start time cleared), whether or not a beacon was dispatched.
C3_IdleAfterSendDuration ==
  /\ op.name \in {"flush", "destroy"} => Idle(op.c)
  /\ op.name \in {"hidden", "beforeunload"} =>
       \A c \in Range(himetricaPageViewListeners) : Idle(c)

CurrentUrl == <<location.pathname, location.search>>

Occurrences(seq, x) == Cardinality({i \in DOMAIN seq : seq[i] = x})

ErrorsSent == {i \in 1..Len(sent) : sent[i].route = "errors"}
CaptureOps == {"captureError", "captureMessage", "onerror"}

\* C4: two dispatches of one error fingerprint are at least DEDUP_EXPIRY
\* (5 minutes) apart; a fingerprint is held back exactly while its own
\* removal timer, set for 5 minutes after its dispatch, is pending; and a
\* capture of a fingerprint that is not held back is dispatched (unless the
\* rate limit rejects it).
C4_OneDispatchPerFingerprintWindow ==
  /\ [](/\ \A i \in ErrorsSent : \A j \in ErrorsSent :
             i < j /\ sent[i].hash = sent[j].hash
               => sent[j].at - sent[i].at >= 300000
        /\ \A h \in DedupHashes :
             h \in sentErrorHashes <=> \E t \in dedupTimers : t.hash = h
        /\ \A t \in dedupTimers :
             \E i \in ErrorsSent :
               sent[i].hash = t.hash /\ t.due = sent[i].at + 300000)
  /\ [][op'.name \in CaptureOps /\ op'.n \notin sentErrorHashes
          /\ Len(errorTimestamps) < 10
          => /\ Cardinality(Added) = 1
             /\ \A i \in Added :
                  sent'[i].route = "errors" /\ sent'[i].hash = op'.n]_vars

\* A capture has just dispatched a fingerprint for the second time.
C4_Witness ==
  /\ op.name \in CaptureOps
  /\ Len(sent) >= 2
  /\ sent[Len(sent)].route = "errors"
  /\ sent[Len(sent)].hash = op.n
  /\ sent[Len(sent)].at = now
  /\ \E i \in 1..(Len(sent) - 1) :
       sent[i].route = "errors" /\ sent[i].hash = op.n

\* C5: every 60-second window holds at most 10 dispatched error or message
\* events, whichever instance or hook captured them.
C5_AtMostTenPerWindow ==
  \A i \in ErrorsSent :
    Cardinality({j \in ErrorsSent : j <= i /\ sent[i].at - sent[j].at <= 60000})
      <= 10

\* Ten events were dispatched at this instant and a capture of a fingerprint
\* never seen before has just been dropped.
C5_Witness ==
  /\ op.name \in CaptureOps
  /\ op.n \notin SentHashes
  /\ Cardinality({j \in ErrorsSent : sent[j].at = now}) = 10

\* C6: a getSessionId read returns the id of the previous read of the same
\* store when at most `timeout` ms have passed since that read, and a
\* different id when more have passed.
C6_SessionStableWithinTimeout ==
  [][op'.name = "getSessionId" =>
       LET prev == lastSession[config[op'.c].cookieDomain]
           timeout == config[op'.c].sessionTimeout
       IN prev.id # 0 =>
            /\ now - prev.at <= timeout => op'.n = prev.id
            /\ now - prev.at > timeout => op'.n # prev.id]_vars

\* The visitor id held by the store of a storage mode (0: none).
StoredVisitorId(cookieDomain) ==
  IF cookieDomain
  THEN IF cookies["hm_vid"].present /\ ~cookieExpired(cookies["hm_vid"], now)
       THEN cookies["hm_vid"].value
       ELSE 0
  ELSE localStorage["hm_visitor_id"]

\* C7: getVisitorId returns the id its storage mode's store holds, and once
\* a store holds a visitor id no operation changes or removes it, so every
\* later getVisitorId call of that mode returns the same value.
C7_VisitorIdStable ==
  /\ [](op.name = "getVisitorId" =>
          /\ op.n # 0
          /\ StoredVisitorId(config[op.c].cookieDomain) = op.n)
  /\ [][\A m \in BOOLEAN :
          StoredVisitorId(m) # 0 => StoredVisitorId(m)' = StoredVisitorId(m)]_vars

\* getVisitorId has just returned the id that two payloads of different
\* sessions carry: the id outlived a session expiry.
C7_Witness ==
  /\ op.name = "getVisitorId"
  /\ \E i \in 1..Len(sent) : \E j \in 1..Len(sent) :
       /\ sent[i].visitorId = op.n
       /\ sent[j].visitorId = op.n
       /\ sent[i].sessionId # sent[j].sessionId

AsciiLetters == (65..90) \cup (97..122)
AsciiDigits == 48..57

\* A non-empty string of at most 255 characters matching
\* ^[A-Za-z][A-Za-z0-9_-]*$
WellFormedEventName(name) ==
  /\ name # NotAString
  /\ Len(name) >= 1
  /\ Len(name) <= 255
  /\ name[1] \in AsciiLetters
  /\ \A k \in 2..Len(name) :
       name[k] \in AsciiLetters \cup AsciiDigits \cup {95, 45}

ProgramState ==
  <<now, env, readyState, location, constructed, config, disabled,
    currentPageViewId, pageViewStartTime, lastTrackedPath, autoPageViewsSetup,
    pendingPageViewTimer, pendingPageViewData, isFirstPageView, cleanupErrors,
    himetricaInitialized, himetricaPushStatePatched, himetricaPageViewListeners,
    historyWrappers, loadListeners, windowOnerror, rejectionListeners, timers,
    timerSeq, idSeq, errorTimestamps, sentErrorHashes, dedupTimers,
    localStorage, sessionStorage, cookies, sent, console, originalConsole,
    vitalsCallbacks, identifyRequests, fetchSeq, vitalsFired, visitorInfoCache,
    visitorInfoPromise, infoRequests>>

\* C8: on an enabled client, track(eventName) dispatches one custom event
\* carrying eventName when eventName is a well-formed event name, and
\* otherwise dispatches nothing and changes no state.
C8_TrackIffWellFormedName ==
  [][op'.name = "track" =>
       /\ WellFormedEventName(op'.arg) =>
            /\ Cardinality(Added) = 1
            /\ \A i \in Added : /\ sent'[i].route = "custom-event"
                                /\ sent'[i].name = op'.arg
                                /\ sent'[i].client = op'.c
       /\ ~WellFormedEventName(op'.arg) => UNCHANGED ProgramState]_vars

\* track("valid_name-1") has just dispatched its custom event.
C8_Witness ==
  /\ op.name = "track"
  /\ op.arg = ValidName
  /\ Len(sent) > 0
  /\ sent[Len(sent)].route = "custom-event"
  /\ sent[Len(sent)].name = ValidName

PublicMethods ==
  {"trackPageView", "track", "captureError", "captureMessage", "getVisitorId",
   "flush", "destroy"}

\* C10: a public method called on an instance that its constructor disabled
\* (nested or sandboxed frame) dispatches nothing and changes no stored
\* identity and no process-wide state.
C10_DisabledInstanceIsNoOp ==
  [][op'.name \in PublicMethods /\ disabled[op'.c] =>
       UNCHANGED <<sent, localStorage, sessionStorage, cookies, idSeq,
                   himetricaInitialized, himetricaPushStatePatched,
                   himetricaPageViewListeners, historyWrappers, windowOnerror,
                   rejectionListeners, timers, errorTimestamps,
                   sentErrorHashes, dedupTimers>>]_vars

NoHooksInstalled ==
  /\ windowOnerror = 0
  /\ rejectionListeners = {}
  /\ console = [error |-> 0, warn |-> 0]
  /\ vitalsCallbacks = <<>>
  /\ historyWrappers = 0
  /\ himetricaPageViewListeners = <<>>
  /\ loadListeners = <<>>

\* C11: with Do-Not-Track "1" and respectDoNotTrack true on every instance,
\* no hook is installed and no request is dispatched, by construction or by
\* trackPageView, track, captureError or captureMessage.
C11_DoNotTrackRespected ==
  (env.doNotTrack /\ \A c \in Clients : constructed[c] => config[c].respectDoNotTrack)
    => NoHooksInstalled /\ sent = <<>>

\* C12: a page view whose send was pending, its delay not yet elapsed, when
\* the page became hidden or was unloaded is never dispatched.
C12_HiddenDropsPendingPageView ==
  \A i \in 1..Len(sent) :
    sent[i].route = "event" => sent[i].pageViewId \notin hiddenPending


PageViewsOf(log, id) ==
  {i \in 1..Len(log) : log[i].route = "event" /\ log[i].pageViewId = id}

\* C13: flush() and destroy(), called in any state, cancel the pending
\* debounce timer and dispatch the pending page view at once if there is one:
\* after the call the client has no pending timer and no pending payload, no
\* timer of the client is left, the pending page view (and no other) was
\* dispatched by the call, and no page view is ever dispatched twice.
C13_FlushDispatchesPending ==
  /\ [][\A c \in Clients :
          (op'.c = c /\ op'.name \in {"flush", "destroy"}) =>
            /\ pendingPageViewTimer'[c] = 0
            /\ pendingPageViewData'[c] = NoData
            /\ \A t \in timers' : t.owner # c
            /\ {i \in Added : sent'[i].route = "event"} =
                 IF pendingPageViewData[c] # NoData
                 THEN {i \in Added :
                         sent'[i].pageViewId = pendingPageViewData[c].pageViewId}
                      \cap {Len(sent) + 1}
                 ELSE {}
            /\ pendingPageViewData[c] # NoData => Len(sent') > Len(sent)]_vars
  /\ [](\A i \in 1..Len(sent) :
          sent[i].route = "event" =>
            Cardinality(PageViewsOf(sent, sent[i].pageViewId)) = 1)

\* flush() or destroy() dispatched a page view before any timer could fire.
C13_Witness ==
  /\ op.name \in {"flush", "destroy"}
  /\ now = Epoch
  /\ \E i \in 1..Len(sent) : sent[i].route = "event"
  /\ timers = {}


\* The global side effects instance c has in place: its error hooks, its
\* vitals subscription, its auto page-view wiring.
HasHooks(c) ==
  \/ windowOnerror = c
  \/ c \in rejectionListeners
  \/ console.error = c
  \/ console.warn = c
  \/ c \in Range(vitalsCallbacks)
  \/ autoPageViewsSetup[c]

\* C14: for any sequence of constructions and destroy() calls on any
\* instances, at most one instance that was not destroyed has its global
\* error hooks, vitals subscription and auto page-view wiring installed.
C14_AtMostOneLiveInstanceWithHooks ==
  Cardinality({c \in Clients :
                 constructed[c] /\ c \notin destroyed /\ HasHooks(c)}) <= 1


\* C15: the teardown closure returned by setupErrorHandlers restores the
\* prior global handlers exactly.  While instance 1 is the only one ever
\* constructed, the handlers before its install are the page's own; after its
\* teardown window.onerror, the unhandledrejection listeners, console.error
\* and console.warn are what the page had.
C15_TeardownRestoresPriorHandlers ==
  (op.name = "destroy" /\ op.c = 1 /\ cleanupErrors[1] /\ ~constructed[2]) =>
    /\ windowOnerror = env.onerror
    /\ rejectionListeners = {}
    /\ console = [error |-> 0, warn |-> 0]

\* C16: the teardown closure is idempotent: a destroy() of an instance that
\* was destroyed before, at any later point, also after another instance
\* installed its hooks, leaves window.onerror, console.error and console.warn
\* unchanged.
C16_SecondTeardownChangesNothing ==
  [][\A c \in Clients :
       (op'.name = "destroy" /\ op'.c = c /\ c \in destroyed
          /\ cleanupErrors[c]) =>
         /\ windowOnerror' = windowOnerror
         /\ console' = console]_vars


\* C17: an OK identify response carrying a visitorId different from the id
\* the request sent overwrites the stored visitor id of the request's storage
\* mode, and every later getVisitorId call and every later payload carries
\* that canonical id; a non-OK response, a network failure or an identical id
\* leaves the stored visitor id unchanged.
C17_CanonicalIdOverridesStored ==
  [][/\ \A r \in identifyRequests \ identifyRequests' :
          op'.name = "identifyResponse" =>
            IF op'.arg = <<"ok">> /\ op'.n # 0 /\ op'.n # r.currentVisitorId
            THEN StoredVisitorId(r.cookieDomain)' = op'.n
            ELSE \A m \in BOOLEAN : StoredVisitorId(m)' = StoredVisitorId(m)
     /\ (canonicalId # 0 /\ op'.name # "identifyResponse") =>
          /\ \A i \in Added : sent'[i].visitorId = canonicalId
          /\ op'.name = "getVisitorId" => op'.n = canonicalId]_vars


PageViewEvents == {i \in 1..Len(sent) : sent[i].route = "event"}

\* C18 as stated: every page-view payload dispatched during one session
\* carries the same referrer and the same UTM parameters as the first page
\* view of that session, in both storage modes.
C18_AttributionImmutableInSession ==
  \A i \in PageViewEvents : \A j \in PageViewEvents :
    sent[i].sessionId = sent[j].sessionId =>
      /\ sent[i].referrer = sent[j].referrer
      /\ sent[i].utm = sent[j].utm

\* C18, amended: every page-view payload dispatched during one session
\* carries the same referrer as the first page view of that session, in both
\* storage modes.
C18_ReferrerImmutableInSession ==
  \A i \in PageViewEvents : \A j \in PageViewEvents :
    sent[i].sessionId = sent[j].sessionId =>
      sent[i].referrer = sent[j].referrer

\* The timer has just dispatched a page view of a document whose referrer,
\* had it been captured, differs from the one the payload carries, in a
\* session that has an earlier page view.
C18_Witness ==
  /\ op.name = "timer"
  /\ config[1].cookieDomain
  /\ Len(sent) \in PageViewEvents
  /\ env.referrer = "external"
  /\ sent[Len(sent)].referrer = ""
  /\ \E i \in PageViewEvents :
       i < Len(sent) /\ sent[i].sessionId = sent[Len(sent)].sessionId


\* C19: in cookie mode, the UTM parameters a page view found in its URL are
\* persisted, so a later page view of the same session whose URL carries none
\* reports those same parameters, also when the earlier page view is the one
\* that started the session.
C19_UrlUtmPersistedForSession ==
  \A i \in PageViewEvents : \A j \in PageViewEvents :
    (/\ i < j
     /\ sent[i].sessionId = sent[j].sessionId
     /\ sent[i].queryString # ""
     /\ sent[j].queryString = "") => sent[j].utm = sent[i].utm


FaultMethods ==
  {"trackPageView", "track", "identify", "captureError", "captureMessage",
   "getVisitorId", "flush", "destroy"}
FaultHooks == {"pushState", "popstate", "onerror", "console.error", "timer"}

\* C20: when a storage access fails with an exception, no public method of
\* the client and no installed hook propagates it to the host application.
C20_NoStorageFaultEscapes ==
  op.name \in FaultMethods \cup FaultHooks => ~exception


VitalsSent(m) ==
  {i \in 1..Len(sent) : sent[i].route = "vitals" /\ sent[i].metric = m}

\* C21: within one page load each of the five vitals metrics is reported at
\* most once, for any sequence of constructions and destroy() calls, the
\* producer delivering each metric once to each registered callback.
C21_EachVitalReportedOnce ==
  \A m \in Metrics : Cardinality(VitalsSent(m)) <= 1


\* C22: the first trackPageView call of a client that passes the
\* duplicate-path check is scheduled with the short delay and every later one
\* with the longer delay; that first call consumes the first-page-view
\* status whether or not its pending send is dispatched.
C22_FirstPageViewShortDelay ==
  /\ [](\A c \in Clients :
          constructed[c] =>
            (isFirstPageView[c] <=> lastTrackedPath[c] = NoPath))
  /\ [][\A t \in timers' \ timers :
          /\ t.due - now' = IF lastTrackedPath[t.owner] = NoPath
                            THEN FIRST_PAGE_VIEW_DELAY
                            ELSE PAGE_VIEW_MIN_DURATION
          /\ ~isFirstPageView'[t.owner]]_vars

\* A page view has just been scheduled with the longer delay although no
\* page view was ever dispatched: the first one was cancelled while pending.
C22_Witness ==
  /\ op.name \in {"trackPageView", "pushState"}
  /\ cancelled # {}
  /\ sent = <<>>
  /\ \E t \in timers : t.due - now = PAGE_VIEW_MIN_DURATION


\* The path a trackPageView(path) call computes at the current location.
ComputedPath(path) ==
  IF path = Undefined THEN <<location.pathname, location.search>>
  ELSE <<path, "">>

\* C23: a trackPageView call whose computed path equals lastTrackedPath
\* dispatches nothing and leaves the pending timer and payload, the current
\* page-view id and start time, the first-page-view flag and the stored
\* session activity untouched.
C23_DuplicatePathIsNoOp ==
  [][\A c \in Clients :
       (/\ op'.name = "trackPageView"
        /\ op'.c = c
        /\ ComputedPath(op'.arg[1]) = lastTrackedPath[c])
       => UNCHANGED <<sent, timers, timerSeq, idSeq, pendingPageViewTimer,
                      pendingPageViewData, currentPageViewId,
                      pageViewStartTime, isFirstPageView, lastTrackedPath,
                      localStorage, sessionStorage, cookies>>]_vars

\* The call just made found a page view pending that was scheduled at an
\* earlier time, so the call scheduled nothing itself.
C23_Witness ==
  /\ op.name = "trackPageView"
  /\ currentPageViewId[1] # 0
  /\ \E t \in timers :
       /\ t.id = pendingPageViewTimer[1]
       /\ t.due - now \notin {FIRST_PAGE_VIEW_DELAY, PAGE_VIEW_MIN_DURATION}


\* The duration sendDuration would report for client c now.
ElapsedSeconds(c) == Round(now - pageViewStartTime[c], 1000)

\* C24: a trackPageView call with a new path made while a page view is
\* current finalizes that page view first: when its duration is in range
\* exactly one duration beacon is emitted and it carries the previous id and
\* the previous page view's duration, otherwise none is; afterwards the
\* current page view is a new one whose start time is the call time.
C24_PreviousFinalizedFirst ==
  [][\A c \in Clients :
       (/\ op'.name = "trackPageView"
        /\ op'.c = c
        /\ ~disabled[c]
        /\ ComputedPath(op'.arg[1]) # lastTrackedPath[c]
        /\ currentPageViewId[c] # 0)
       => /\ IF ElapsedSeconds(c) >= MIN_DURATION
                /\ ElapsedSeconds(c) <= MAX_DURATION
             THEN /\ Len(sent') = Len(sent) + 1
                  /\ sent'[Len(sent')].route = "beacon"
                  /\ sent'[Len(sent')].pageViewId = currentPageViewId[c]
                  /\ sent'[Len(sent')].duration = ElapsedSeconds(c)
             ELSE sent' = sent
          /\ currentPageViewId'[c] \notin {0, currentPageViewId[c]}
          /\ currentPageViewId'[c] > idSeq
          /\ pageViewStartTime'[c] = now']_vars

\* The latest dispatch is the duration of a page view that was dispatched,
\* and a trackPageView call has just started and scheduled its successor.
C24_Witness ==
  /\ op.name = "trackPageView"
  /\ Len(sent) >= 2
  /\ sent[Len(sent)].route = "beacon"
  /\ \E i \in 1..Len(sent) :
       /\ sent[i].route = "event"
       /\ sent[i].pageViewId = sent[Len(sent)].pageViewId
  /\ currentPageViewId[1] \notin {0, sent[Len(sent)].pageViewId}
  /\ pageViewStartTime[1] = now
  /\ \E t \in timers :
       t.id = pendingPageViewTimer[1] /\ t.due - now = PAGE_VIEW_MIN_DURATION


\* C25: a captured error or message meets the rate limiter first and the
\* dedup guard second.  It is dispatched exactly when the rate limiter has
\* room and its fingerprint is not remembered; an event the rate limiter
\* rejects never reaches the dedup guard, an event the dedup guard rejects has
\* used a rate-limit slot, and a rejected event raises nothing.
C25_RateLimitThenDedup ==
  [][(op'.name \in CaptureOps /\ ~disabled[op'.c]) =>
       LET kept == evictOld(errorTimestamps, now)
           rateOk == Len(kept) < RATE_LIMIT_MAX
           dedupOk == op'.n \notin sentErrorHashes
       IN /\ ~exception'
          /\ IF rateOk /\ dedupOk
             THEN /\ Len(sent') = Len(sent) + 1
                  /\ sent'[Len(sent')].route = "errors"
                  /\ sent'[Len(sent')].hash = op'.n
             ELSE sent' = sent
          /\ errorTimestamps' = IF rateOk THEN Append(kept, now) ELSE kept
          /\ sentErrorHashes' = IF rateOk THEN sentErrorHashes \cup {op'.n}
                                ELSE sentErrorHashes]_vars

\* The rate limiter has just rejected an error whose fingerprint was new:
\* the window is full and the fingerprint was not remembered.
C25_Witness ==
  /\ op.name \in CaptureOps
  /\ Len(errorTimestamps) = RATE_LIMIT_MAX
  /\ op.n \notin sentErrorHashes
  /\ \A i \in 1..Len(sent) : sent[i].hash # op.n


\* C26: a duration beacon for a page-view id is dispatched only after the
\* page-view event with that id; hence none is dispatched for a page view
\* whose send is still pending or was cancelled.
C26_DurationOnlyAfterPageView ==
  \A i \in 1..Len(sent) :
    sent[i].route = "beacon" =>
      \E j \in 1..(i - 1) :
        /\ sent[j].route = "event"
        /\ sent[j].pageViewId = sent[i].pageViewId


\* ---------------------------------------------- after-teardown runs
\* Instances are constructed and destroyed on one page while the host
\* application navigates and the tab is hidden or closed.
NextTeardown ==
  \/ \E c \in Pair, cfg \in PVConfigs : Construct(c, cfg, HookBudget)
  \/ \E c \in Pair : Destroy(c, HookBudget)
  \/ \E u \in Urls : PushState(u, HookBudget)
  \/ VisibilityHidden(HookBudget)
  \/ BeforeUnload(HookBudget)
  \/ \E t \in timers : PageViewTimerFire(t, HookBudget)
  \/ Tick(PAGE_VIEW_MIN_DURATION, PAGE_VIEW_MIN_DURATION, PVPause)

SpecTeardown == Init /\ [][NextTeardown]_vars

\* The steps the browser or the host's router drives, not a client method.
PageOps == {"pushState", "popstate", "hidden", "beforeunload", "timer"}

\* C27: once destroy() has returned, a navigation, a visibility change or an
\* unload makes the destroyed instance dispatch no page-view event and no
\* duration beacon, whether or not another instance was constructed since.
C27_DestroyedInstanceIsSilent ==
  [][op'.name \in PageOps =>
       \A i \in Added :
         sent'[i].route \in {"event", "beacon"} =>
           sent'[i].client \notin destroyed]_vars


\* C28: whatever the order of timer firings, trackPageView, flush() and
\* destroy(), no page-view id is dispatched as a page-view event twice, and
\* a client's pending timer is set exactly when its pending payload is: the
\* timer is then live and carries that payload, whose id was not dispatched.
C28_PageViewDispatchedAtMostOnce ==
  /\ \A i, j \in PageViewEvents :
       sent[i].pageViewId = sent[j].pageViewId => i = j
  /\ \A c \in Clients :
       /\ (pendingPageViewTimer[c] # 0) <=> (pendingPageViewData[c] # NoData)
       /\ pendingPageViewTimer[c] # 0 =>
            /\ \E t \in timers :
                 /\ t.id = pendingPageViewTimer[c]
                 /\ t.owner = c
                 /\ t.data = pendingPageViewData[c]
            /\ \A i \in PageViewEvents :
                 sent[i].pageViewId # pendingPageViewData[c].pageViewId
  /\ \A t \in timers : pendingPageViewTimer[t.owner] = t.id

\* A debounce timer has fired and dispatched the second page view of the
\* run; nothing is pending any more.
C28_Witness ==
  /\ op.name = "timer"
  /\ Cardinality(PageViewEvents) = 2
  /\ timers = {}
  /\ pendingPageViewData[1] = NoData


DurationBeacons == {i \in 1..Len(sent) : sent[i].route = "beacon"}

\* C29: no page-view id has more than one duration beacon, whatever the
\* sequence of navigations, visibility-hidden events, unload, flush() and
\* destroy().
C29_OneDurationPerPageView ==
  \A i, j \in DurationBeacons :
    sent[i].pageViewId = sent[j].pageViewId => i = j

\* The tab was hidden again after the latest page view had been reported: no
\* page view is current, a beacon is in the log, and the step added nothing
\* (the latest dispatch is a page-view event).
C29_Witness ==
  /\ op.name = "hidden"
  /\ DurationBeacons # {}
  /\ currentPageViewId[1] = 0
  /\ sent[Len(sent)].route = "event"


\* The routes whose payload names the visitor; all but identify name the
\* session as well.
IdentityRoutes == {"custom-event", "identify", "errors", "vitals"}

\* What getVisitorId() of a client in the given storage mode returns now.
VisitorIdNow(cookieDomain) == getVisitorId(Cur, cookieDomain).v

\* C30: a payload built for a client carries the visitor id that the
\* client's getVisitorId() returns at that moment and the session id of the
\* session store of the client's storage mode; a page view takes both when
\* it is scheduled.
C30_PayloadCarriesClientIdentity ==
  [][\A c \in Clients :
       (op'.c = c /\ constructed[c]) =>
         /\ \A i \in Added :
              sent'[i].route \in IdentityRoutes =>
                /\ sent'[i].visitorId = VisitorIdNow(config[c].cookieDomain)'
                /\ sent'[i].route # "identify" =>
                     sent'[i].sessionId =
                       lastSession'[config[c].cookieDomain].id
         /\ (op'.name = "trackPageView" /\ timerSeq' # timerSeq) =>
              /\ pendingPageViewData'[c].visitorId =
                   VisitorIdNow(config[c].cookieDomain)'
              /\ pendingPageViewData'[c].sessionId =
                   lastSession'[config[c].cookieDomain].id]_vars


\* The timestamps the rate limiter still holds at the current time.
WindowNow == evictOld(errorTimestamps, now)

\* C31: a capture the rate limiter accepts and the dedup guard drops as a
\* duplicate leaves its timestamp in the rate limiter and dispatches nothing,
\* so duplicates use up the window; a capture the rate limiter rejects
\* leaves the dedup set and its expiry timers as they were.
C31_DuplicatesCountTowardLimit ==
  [][(op'.name \in CaptureOps /\ ~disabled[op'.c]) =>
       /\ (Len(WindowNow) < RATE_LIMIT_MAX /\ op'.n \in sentErrorHashes) =>
            /\ errorTimestamps' = Append(WindowNow, now)
            /\ sent' = sent
       /\ Len(WindowNow) >= RATE_LIMIT_MAX =>
            /\ sentErrorHashes' = sentErrorHashes
            /\ dedupTimers' = dedupTimers
            /\ sent' = sent]_vars

\* The window is full although fewer than RATE_LIMIT_MAX errors were
\* dispatched, and the capture just made, of a new fingerprint, was dropped
\* without being remembered.
C31_Witness ==
  /\ op.name \in CaptureOps
  /\ Len(errorTimestamps) = RATE_LIMIT_MAX
  /\ Cardinality(ErrorsSent) < RATE_LIMIT_MAX
  /\ \A i \in 1..Len(errorTimestamps) : errorTimestamps[i] = now
  /\ op.n \notin sentErrorHashes


\* ---------------------------------------------- visitor-info runs
\* Two clients in either storage mode ask for the visitor info again and
\* again while the route answers, fails or stays silent.
InfoMaxFetches == 4
InfoBudget == [SessionBudget EXCEPT !.sent = InfoMaxFetches]

NextInfo ==
  \/ \E c \in Pair, cfg \in SessionConfigs : Construct(c, cfg, InfoBudget)
  \/ \E c \in Pair : GetVisitorInfo(c, InfoMaxFetches, InfoBudget)
  \/ \E r \in infoRequests, res \in InfoResponses :
       VisitorInfoResponse(r, res, InfoBudget)
  \/ \E c \in Pair : Destroy(c, InfoBudget)

SpecInfo == Init /\ [][NextInfo]_vars

InFlight(c) == {r \in infoRequests : r.client = c}

\* C32: getVisitorInfo is single-flight per client.  At most one request of
\* a client is in flight; a call made while one is pending returns that
\* request's promise and sends nothing; once a response has been cached every
\* call returns the cached value and sends nothing; a failed request clears
\* the pending promise, and the next call sends a new request.
C32_VisitorInfoSingleFlight ==
  /\ [](\A c \in Clients :
          /\ Cardinality(InFlight(c)) <= 1
          /\ \A r \in InFlight(c) : visitorInfoPromise[c] = r.promise
          /\ visitorInfoCache[c] # 0 => InFlight(c) = {})
  /\ [][\A c \in Clients :
          /\ (op'.name = "getVisitorInfo" /\ op'.c = c /\ ~disabled[c]) =>
               /\ InFlight(c) # {} =>
                    /\ sent' = sent
                    /\ infoRequests' = infoRequests
                    /\ \A r \in InFlight(c) : op'.n = r.promise
               /\ visitorInfoCache[c] # 0 =>
                    /\ sent' = sent
                    /\ infoRequests' = infoRequests
                    /\ op'.arg = <<"cached">>
                    /\ op'.n = visitorInfoCache[c]
               /\ (InFlight(c) = {} /\ visitorInfoCache[c] = 0) =>
                    /\ Len(sent') = Len(sent) + 1
                    /\ sent'[Len(sent')].route = "visitor-info"
                    /\ Cardinality(InFlight(c)') = 1
          /\ (op'.name = "visitorInfoResponse" /\ op'.c = c) =>
               /\ visitorInfoPromise'[c] = 0
               /\ InFlight(c)' = {}
               /\ visitorInfoCache'[c] # 0 <=> op'.arg = <<"ok">>
          /\ visitorInfoCache[c] # 0 =>
               visitorInfoCache'[c] = visitorInfoCache[c]]_vars

\* A request of the client has failed, and the call just made has sent the
\* client's second request.
C32_Witness ==
  /\ op.name = "getVisitorInfo"
  /\ InFlight(op.c) # {}
  /\ Cardinality({i \in 1..Len(sent) : sent[i].client = op.c}) = 2
  /\ visitorInfoCache[op.c] = 0


\* ------------------------------------------------------ progress runs
\* The page stays loaded.  The clock advances while a timer is waiting, and
\* the event loop runs every timer that is due: both are weakly fair.
Elapse(d) ==
  /\ \E t \in timers : t.due > now
  /\ Commit([Cur EXCEPT !.now = @ + d], Op("tick", 0, <<>>, d))

\* Room for the page view and the duration beacon of every timer, so that
\* no dispatch is ever held back by the budget.
LiveBudget ==
  [ids |-> MaxIds, sent |-> 2 * MaxTimers, timers |-> MaxTimers,
   errors |-> MaxCaptures, history |-> FALSE]

TimerFires == \E t \in timers : PageViewTimerFire(t, LiveBudget)
TimePasses == \E d \in PVSteps : Elapse(d)

NextLive ==
  \/ \E cfg \in PVConfigs : Construct(1, cfg, LiveBudget)
  \/ \E p \in Pathnames \cup {Undefined} : TrackPageView(1, p, LiveBudget)
  \/ \E u \in Urls : PushState(u, LiveBudget)
  \/ VisibilityHidden(LiveBudget)
  \/ Flush(1, LiveBudget)
  \/ Destroy(1, LiveBudget)
  \/ TimerFires
  \/ TimePasses

SpecLive ==
  Init /\ [][NextLive]_vars /\ WF_vars(TimerFires) /\ WF_vars(TimePasses)

\* C33: a scheduled page view that no later trackPageView cancels is
\* eventually dispatched as a page-view event, and the client then has
\* nothing pending (the document is never unloaded in these runs).
C33_ScheduledPageViewIsDispatched ==
  \A p \in 1..MaxIds :
    (pendingPageViewData[1] # NoData /\ pendingPageViewData[1].pageViewId = p)
      ~> \/ p \in cancelled
         \/ /\ PageViewsOf(sent, p) # {}
            /\ pendingPageViewData[1] = NoData

\* The debounce timer of a page view scheduled with the longer delay has
\* fired and dispatched it; nothing is pending.
C33_Witness ==
  /\ op.name = "timer"
  /\ sent[Len(sent)].route = "event"
  /\ sent[Len(sent)].pageViewId \notin cancelled
  /\ cancelled # {}
  /\ pendingPageViewData[1] = NoData
  /\ pendingPageViewTimer[1] = 0


\* C34: in cookie mode the hm_sid and hm_sts cookies outlive the session
\* timeout: until sessionTimeout ms have passed since the last read of the
\* cookie store, both cookies are still there and hm_sid holds the id that
\* read returned.
C34_SessionCookiesOutliveTimeout ==
  \A c \in Clients :
    (/\ constructed[c]
     /\ config[c].cookieDomain
     /\ lastSession[TRUE].id # 0
     /\ now - lastSession[TRUE].at <= config[c].sessionTimeout)
    => /\ getCookie(Cur, "hm_sid") = lastSession[TRUE].id
       /\ getCookie(Cur, "hm_sts") = lastSession[TRUE].at

====
